---- MODULE Spec2Model ----
(***************************************************************************)
(* A model of the query scheduler's queueBroker                            *)
(* (pkg/scheduler/queue/tenant_queues.go): the tree of tenant queues, the  *)
(* tenant-querier shuffle-shard assignments and the querier lifecycle.     *)
(*                                                                         *)
(* tenant_queues.go is translated from its source.  Tree, Node, the        *)
(* roundRobinState and shuffleShardState selection algorithms and          *)
(* tenantQuerierAssignments are not among the source files; they are       *)
(* modelled from the design document (sections 3, 4.1 - 4.4).              *)
(***************************************************************************)
EXTENDS Integers, Sequences, FiniteSets, TLC

\* ------------------------------------------------------------------------
\* Bounds of the model and the values the inputs are drawn from
\* ------------------------------------------------------------------------

\* Requests created by enqueueRequestBack are numbered from 1: up to
\* MaxRequests where the queues are followed, up to MaxRotationRequests where
\* the rotation over the tenants is, and up to MaxLifecycleRequests where the
\* querier lifecycle is.
MaxRequests == 2
MaxRotationRequests == 3
MaxLifecycleRequests == 1
\* Requests numbered where the backlog limit is followed.
MaxBacklogRequests == 3
\* Connections one querier may hold open at a time.
MaxConnections == 1
\* The clock runs over 0 .. MaxTime.
MaxTime == 1

\* Items enqueued to the tree under the skip-over algorithm.
MaxTreeItems == 4

\* Items enqueued to the tree that is drained beside the broker.
MaxDrainItems == 2

\* Workers connected, and requests in flight for a component, where the
\* threshold is computed on its own.
MaxWorkers == 4

\* Readers the factory of a LazyBinaryReader returns, one per load.
MaxLoads == 2
\* time.Now() runs over 1 .. MaxClock while the LazyBinaryReader is used.
MaxClock == 2
\* Calls whose context is cancelled, and lazySymbolsReaders open at a time.
MaxCancels == 1
MaxSymbolsReaders == 1

Tenants == {"a", "b"}
\* QuerierID is any string.  The empty string is the value of the local
\* variable that newQueueBroker hands to the shuffle-shard state.
QuerierOrder == <<"", "q1">>
Queriers == {QuerierOrder[i] : i \in DOMAIN QuerierOrder}
\* AdditionalQueueDimensions of a request: none, or one query component.
Dimensions == {<<>>, <<"ingester">>, <<"store-gateway">>}
\* tenantMaxQueriers passed by the callers: 0 is "no sharding".
MaxQueriersChoices == {0, 1}
\* The configurations: maxTenantQueueSize and querierForgetDelay.
MaxTenantQueueSizes == {0, 1, 2}
ForgetDelays == {1}

emptyTenantID == ""
localQueueIndex == -1

ErrNone == "nil"
ErrTooManyRequests == "ErrTooManyRequests"
ErrQuerierShuttingDown == "ErrQuerierShuttingDown"

\* The nil *tenantRequest and the nil *queueTenant.
NoRequest == [tenantID |-> emptyTenantID, id |-> 0, dims |-> <<>>]
NoTenant == [tenantID |-> emptyTenantID, maxQueriers |-> 0]

VARIABLES
    root,                   \* queueTree.rootNode: the tree of Nodes
    sharedQueuePosition,    \* treeShuffleShardState.sharedQueuePosition
    sssCurrentQuerier,      \* the variable treeShuffleShardState.currentQuerier points to
    currentQuerier,         \* queueBroker.currentQuerier
    queriersByID,           \* tenantQuerierAssignments.queriersByID
    tenantsByID,            \* tenantQuerierAssignments.tenantsByID
    tenantQuerierIDs,       \* tenantQuerierAssignments.tenantQuerierIDs
    maxTenantQueueSize,     \* configuration
    additionalQueueDimensionsEnabled,
    querierForgetDelay,
    now,                    \* the callers' clock
    nextID,                 \* number of the next request to be created
    inflight,               \* requests dequeued and held by queriers
    fronted,                \* IDs of the queued requests that were re-enqueued at the front
    lastTenantIndexOf,      \* per querier: the position its last dequeue returned
    lastServed,             \* the tenant of the last request dequeued
    waiting,                \* the other tenants that had requests pending then
    ret,                    \* what the last operation returned
    tree,                   \* Tree.rootNode of the tree under the skip-over algorithm
    qcud,                   \* its queryComponentUtilizationDequeueSkipOverThreshold
    qcurc,                  \* its queryComponentUtilizationReserveConnections
    nextObj,                \* number of the next item enqueued to that tree
    treeRet,                \* what the last Tree.Dequeue returned
    threshold,              \* the last answer of ExceedsThresholdForComponentName
    loop,                   \* LazyBinaryReader.controlLoop: where it stands, its variable loaded
    readers,                \* the Readers the factory returned, with their WaitGroups
    usedAt,                 \* LazyBinaryReader.usedAt
    lazyNow,                \* time.Now().UnixNano()
    callers,                \* the goroutines that call the LazyBinaryReader
    cancels,                \* number of contexts cancelled so far
    lazyRet                 \* what the last call of the LazyBinaryReader returned

brokerVars == <<root, sharedQueuePosition, sssCurrentQuerier, currentQuerier,
                queriersByID, tenantsByID, tenantQuerierIDs>>
configVars == <<maxTenantQueueSize, additionalQueueDimensionsEnabled, querierForgetDelay>>
vars == <<root, sharedQueuePosition, sssCurrentQuerier, currentQuerier,
          queriersByID, tenantsByID, tenantQuerierIDs,
          maxTenantQueueSize, additionalQueueDimensionsEnabled, querierForgetDelay,
          now, nextID, inflight, fronted, lastTenantIndexOf, lastServed, waiting, ret,
          tree, qcud, qcurc, nextObj, treeRet, threshold,
          loop, readers, usedAt, lazyNow, callers, cancels, lazyRet>>
treeVars == <<tree, qcud, qcurc, nextObj, treeRet, threshold>>
readerVars == <<loop, readers, usedAt, lazyNow, callers, cancels, lazyRet>>
requestVars == <<nextID, inflight, fronted>>
rotationVars == <<lastTenantIndexOf, lastServed, waiting>>

\* ------------------------------------------------------------------------
\* Tree and Node (design document 3, 4.1)
\* ------------------------------------------------------------------------

EmptyMap == [x \in {} |-> x]

\* A Node: its name, its local FIFO, its children by name, and the rotation
\* order over the children with the cursor into it.
NewNode(name) ==
    [name |-> name, localQueue |-> <<>>, queuePosition |-> localQueueIndex,
     queueOrder |-> <<>>, queueMap |-> EmptyMap]

IsEmpty(n) == Len(n.localQueue) = 0 /\ DOMAIN n.queueMap = {}

RECURSIVE ItemCount(_)
RECURSIVE ChildItemCount(_, _)
ChildItemCount(n, names) ==
    IF names = {} THEN 0
    ELSE LET c == CHOOSE x \in names : TRUE
         IN ItemCount(n.queueMap[c]) + ChildItemCount(n, names \ {c})
ItemCount(n) == Len(n.localQueue) + ChildItemCount(n, DOMAIN n.queueMap)

\* getNode(pathFromNode) # nil
RECURSIVE HasNode(_, _)
HasNode(n, path) ==
    IF path = <<>> THEN TRUE
    ELSE /\ Head(path) \in DOMAIN n.queueMap
         /\ HasNode(n.queueMap[Head(path)], Tail(path))

\* getNode(pathFromNode), where it is not nil
RECURSIVE GetNode(_, _)
GetNode(n, path) ==
    IF path = <<>> THEN n ELSE GetNode(n.queueMap[Head(path)], Tail(path))

RemoveName(order, name) == SelectSeq(order, LAMBDA x : x # name)

\* addChildNode of roundRobinState and shuffleShardState: the new name is
\* appended to the rotation order.
addChildNode(parent, child) ==
    [parent EXCEPT !.queueMap = (child.name :> child) @@ @,
                   !.queueOrder = Append(@, child.name)]

\* enqueueBackByPath / enqueueFrontByPath: missing nodes along the path are
\* created and registered with addChildNode; the item goes to the tail, or
\* the head, of the last node's local queue.
RECURSIVE enqueueByPath(_, _, _, _)
enqueueByPath(n, path, v, front) ==
    IF path = <<>>
    THEN [n EXCEPT !.localQueue = IF front THEN <<v>> \o @ ELSE Append(@, v)]
    ELSE LET c == Head(path)
             n1 == IF c \in DOMAIN n.queueMap THEN n ELSE addChildNode(n, NewNode(c))
         IN [n1 EXCEPT !.queueMap[c] = enqueueByPath(@, Tail(path), v, front)]

enqueueBackByPath(n, path, v) == enqueueByPath(n, path, v, FALSE)
enqueueFrontByPath(n, path, v) == enqueueByPath(n, path, v, TRUE)

\* dequeueUpdateState of roundRobinState after the local queue was chosen:
\* the cursor advances and wraps to the local queue past the last child.
rrUpdateStateLocal(n) ==
    LET p == n.queuePosition + 1
    IN [n EXCEPT !.queuePosition = IF p >= Len(n.queueOrder) THEN localQueueIndex ELSE p]

\* dequeueUpdateState of roundRobinState after child `name` was chosen: an
\* emptied child is removed from the node and the rotation and the cursor
\* stays (the next child moved into its slot); otherwise the cursor advances.
rrUpdateStateChild(n, name) ==
    LET emptied == IsEmpty(n.queueMap[name])
        order == IF emptied THEN RemoveName(n.queueOrder, name) ELSE n.queueOrder
        map == IF emptied
               THEN [c \in DOMAIN n.queueMap \ {name} |-> n.queueMap[c]]
               ELSE n.queueMap
        p == IF emptied THEN n.queuePosition ELSE n.queuePosition + 1
    IN [n EXCEPT !.queueMap = map, !.queueOrder = order,
                 !.queuePosition = IF p >= Len(order) THEN localQueueIndex ELSE p]

\* Node.dequeue below the root, under roundRobinState: select the local queue
\* (cursor at the sentinel) or the child at the cursor, dequeue there, update
\* the rotation, and go on until an item is found or every slot was checked.
\* The result is the node after the dequeue, the path dequeued from (the
\* node's own name first) and the item.
RECURSIVE NodeDequeue(_)
RECURSIVE rrDequeueLoop(_, _)
rrDequeueLoop(n, childrenChecked) ==
    LET checkedAllNodes == childrenChecked = Len(n.queueOrder) + 1
    IN IF n.queuePosition = localQueueIndex
       THEN IF Len(n.localQueue) > 0
            THEN [node |-> rrUpdateStateLocal([n EXCEPT !.localQueue = Tail(@)]),
                  path |-> <<>>, v |-> Head(n.localQueue)]
            ELSE IF checkedAllNodes
                 THEN [node |-> rrUpdateStateLocal(n), path |-> <<>>, v |-> NoRequest]
                 ELSE rrDequeueLoop(rrUpdateStateLocal(n), childrenChecked + 1)
       ELSE LET name == n.queueOrder[n.queuePosition + 1]
                r == NodeDequeue(n.queueMap[name])
                n1 == rrUpdateStateChild([n EXCEPT !.queueMap[name] = r.node], name)
            IN IF r.v # NoRequest
               THEN [node |-> n1, path |-> r.path, v |-> r.v]
               ELSE IF checkedAllNodes
                    THEN [node |-> n1, path |-> <<>>, v |-> NoRequest]
                    ELSE rrDequeueLoop(n1, childrenChecked + 1)
NodeDequeue(n) ==
    IF IsEmpty(n)
    THEN [node |-> n, path |-> <<n.name>>, v |-> NoRequest]
    ELSE LET r == rrDequeueLoop(n, 0)
         IN [node |-> r.node, path |-> <<n.name>> \o r.path, v |-> r.v]

\* ------------------------------------------------------------------------
\* tenantQuerierAssignments (design document 4.4)
\* ------------------------------------------------------------------------

\* A tenant's eligible queriers: every querier (no sharding), or the set ids.
AllQueriers == [all |-> TRUE, ids |-> {}]

\* The queriers a tenant can be sharded over: registered, not shutting down.
QuerierPool(qs) == {q \in DOMAIN qs : ~qs[q].shuttingDown}

\* querierIDsSorted restricted to the pool.
SortedQueriers(pool) == SelectSeq(QuerierOrder, LAMBDA q : q \in pool)

\* The seed of the tenant's pseudo-random selection, a function of its ID.
TenantSeed(t) == IF t = "a" THEN 0 ELSE 1

\* The reshard algorithm: a subset of the pool that depends on the tenant ID,
\* the shard width and the pool only; of size min(maxQueriers, |pool|); a
\* width <= 0 is "no sharding".
ShuffleShard(t, maxQueriers, pool) ==
    IF maxQueriers <= 0 THEN AllQueriers
    ELSE LET s == SortedQueriers(pool)
             n == Len(s)
             size == IF maxQueriers < n THEN maxQueriers ELSE n
         IN [all |-> FALSE,
             ids |-> {s[((TenantSeed(t) + i) % n) + 1] : i \in 0 .. size - 1}]

\* A reshard: every tenant's subset is computed again.
recomputeTenantQueriers(tenants, qs) ==
    [t \in DOMAIN tenants |-> ShuffleShard(t, tenants[t].maxQueriers, QuerierPool(qs))]

\* createOrUpdateTenant: registers an unseen tenant, or updates its shard
\* width; either way its subset is computed for the current width.
createOrUpdateTenant(tenantID, maxQueriers) ==
    LET tenants == (tenantID :> [tenantID |-> tenantID, maxQueriers |-> maxQueriers])
                   @@ tenantsByID
    IN [tenantsByID |-> tenants,
        tenantQuerierIDs |->
            (tenantID :> ShuffleShard(tenantID, maxQueriers, QuerierPool(queriersByID)))
            @@ tenantQuerierIDs]

\* removeTenant: the registration and the tenant's subset are dropped.
removeTenant(tenantID) ==
    [tenantsByID |-> [t \in DOMAIN tenantsByID \ {tenantID} |-> tenantsByID[t]],
     tenantQuerierIDs |->
         [t \in DOMAIN tenantQuerierIDs \ {tenantID} |-> tenantQuerierIDs[t]]]

\* tenantQuerierAssignments.addQuerierConnection: the connection count goes
\* up; a querier that was absent or shutting down joins the pool, a reshard.
tqaAddQuerierConnection(q) ==
    LET known == q \in DOMAIN queriersByID
        resharded == ~known \/ queriersByID[q].shuttingDown
        conn == [connections |-> IF known THEN queriersByID[q].connections + 1 ELSE 1,
                 shuttingDown |-> FALSE, disconnectedAt |-> 0]
    IN [queriers |-> (q :> conn) @@ queriersByID, resharded |-> resharded]

\* tenantQuerierAssignments.removeQuerierConnection: the connection count goes
\* down; at zero the disconnect time is stamped and the querier stays.
tqaRemoveQuerierConnection(q, t) ==
    LET c == queriersByID[q].connections - 1
    IN [queriers |-> [queriersByID EXCEPT ![q].connections = c,
                          ![q].disconnectedAt = IF c = 0 THEN t ELSE @],
        resharded |-> FALSE]

\* tenantQuerierAssignments.notifyQuerierShutdown: a known querier is marked
\* shutting down and leaves the pool, a reshard; an unknown one is ignored.
tqaNotifyQuerierShutdown(q) ==
    IF q \in DOMAIN queriersByID
    THEN [queriers |-> [queriersByID EXCEPT ![q].shuttingDown = TRUE],
          resharded |-> ~queriersByID[q].shuttingDown]
    ELSE [queriers |-> queriersByID, resharded |-> FALSE]

\* The queriers forgetDisconnectedQueriers(t) purges: no connection left and
\* disconnected for at least the forget delay.
Forgotten(t) ==
    {q \in DOMAIN queriersByID :
        /\ queriersByID[q].connections = 0
        /\ t - queriersByID[q].disconnectedAt >= querierForgetDelay}

tqaForgetDisconnectedQueriers(t) ==
    [queriers |-> [q \in DOMAIN queriersByID \ Forgotten(t) |-> queriersByID[q]],
     resharded |-> Forgotten(t) # {}]

\* ------------------------------------------------------------------------
\* shuffleShardState: tenant selection at the root (design document 4.3)
\* ------------------------------------------------------------------------

\* tenantQuerierMap[tenant]; a tenant without an entry reads as the nil set,
\* which is "every querier".
TenantQuerierSet(t) ==
    IF t \in DOMAIN tenantQuerierIDs THEN tenantQuerierIDs[t] ELSE AllQueriers

\* Is the tenant a candidate for the querier the shuffle-shard state sees?
IsEligible(t) ==
    TenantQuerierSet(t).all \/ sssCurrentQuerier \in TenantQuerierSet(t).ids

\* The slot the rotation starts from: a cursor at the local-queue sentinel,
\* or past the end of the rotation, continues with the first child (the
\* root's local queue holds nothing: every path starts with a tenant).
RotationStart(n, pos) ==
    IF pos = localQueueIndex \/ pos >= Len(n.queueOrder) THEN 0 ELSE pos

\* dequeueSelectNode of shuffleShardState: the first tenant, in rotation order
\* from the cursor, that is eligible; tenants that are not are passed over and
\* stay in the rotation.  The result is its index, or the sentinel if none.
sssSelectIndex(n, pos) ==
    LET len == Len(n.queueOrder)
        start == RotationStart(n, pos)
        steps == {i \in 0 .. len - 1 : IsEligible(n.queueOrder[((start + i) % len) + 1])}
    IN IF steps = {} THEN localQueueIndex
       ELSE (start + (CHOOSE i \in steps : \A j \in steps : i <= j)) % len

\* Node.dequeue at the root, from cursor pos: the selected tenant's node is
\* dequeued from; dequeueUpdateState removes it when emptied and keeps the
\* cursor, and advances the cursor otherwise, wrapping to the sentinel.  The
\* result is the root after the dequeue, the cursor, the path including the
\* root's name, and the item.
rootDequeue(n, pos) ==
    LET i == sssSelectIndex(n, pos)
    IN IF IsEmpty(n) \/ i = localQueueIndex
       THEN [node |-> n, pos |-> pos, path |-> <<n.name>>, v |-> NoRequest]
       ELSE LET name == n.queueOrder[i + 1]
                r == NodeDequeue(n.queueMap[name])
                n1 == rrUpdateStateChild(
                          [n EXCEPT !.queueMap[name] = r.node, !.queuePosition = i], name)
            IN [node |-> [n1 EXCEPT !.queuePosition = localQueueIndex],
                pos |-> n1.queuePosition,
                path |-> <<n.name>> \o r.path, v |-> r.v]

\* ------------------------------------------------------------------------
\* queueBroker (tenant_queues.go)
\* ------------------------------------------------------------------------

Returned(request, tenant, position, err, resharded) ==
    [request |-> request, tenant |-> tenant, position |-> position,
     err |-> err, resharded |-> resharded]

ReturnedErr(err) == Returned(NoRequest, NoTenant, localQueueIndex, err, FALSE)
ReturnedResharded(r) == Returned(NoRequest, NoTenant, localQueueIndex, ErrNone, r)

\* makeQueuePath: the tenant ID, followed by the request's additional queue
\* dimensions when these are enabled.
makeQueuePath(request) ==
    IF additionalQueueDimensionsEnabled
    THEN <<request.tenantID>> \o request.dims
    ELSE <<request.tenantID>>

\* The size check of enqueueRequestBack: made only when the tenant's node
\* (the first segment of the path) exists.
TenantQueueIsFull(queuePath) ==
    /\ HasNode(root, SubSeq(queuePath, 1, 1))
    /\ ItemCount(GetNode(root, SubSeq(queuePath, 1, 1))) + 1 > maxTenantQueueSize

\* enqueueRequestBack making the size check before createOrUpdateTenant.
enqueueRequestBackCheckingFirst(request, tenantMaxQueriers) ==
    LET tqa == createOrUpdateTenant(request.tenantID, tenantMaxQueriers)
        queuePath == makeQueuePath(request)
    IN /\ IF TenantQueueIsFull(queuePath)
          THEN /\ root' = root
               /\ tenantsByID' = tenantsByID
               /\ tenantQuerierIDs' = tenantQuerierIDs
               /\ ret' = ReturnedErr(ErrTooManyRequests)
          ELSE /\ root' = enqueueBackByPath(root, queuePath, request)
               /\ tenantsByID' = tqa.tenantsByID
               /\ tenantQuerierIDs' = tqa.tenantQuerierIDs
               /\ ret' = ReturnedErr(ErrNone)
       /\ UNCHANGED <<sharedQueuePosition, sssCurrentQuerier, currentQuerier, queriersByID>>

enqueueRequestBack(request, tenantMaxQueriers) ==
    LET tqa == createOrUpdateTenant(request.tenantID, tenantMaxQueriers)
        queuePath == makeQueuePath(request)
    IN /\ tenantsByID' = tqa.tenantsByID
       /\ tenantQuerierIDs' = tqa.tenantQuerierIDs
       /\ IF TenantQueueIsFull(queuePath)
          THEN /\ root' = root
               /\ ret' = ReturnedErr(ErrTooManyRequests)
          ELSE /\ root' = enqueueBackByPath(root, queuePath, request)
               /\ ret' = ReturnedErr(ErrNone)
       /\ UNCHANGED <<sharedQueuePosition, sssCurrentQuerier, currentQuerier, queriersByID>>

\* enqueueRequestFront that puts the request behind what is queued.
enqueueRequestFrontAtBack(request, tenantMaxQueriers) ==
    LET tqa == createOrUpdateTenant(request.tenantID, tenantMaxQueriers)
        queuePath == makeQueuePath(request)
    IN /\ tenantsByID' = tqa.tenantsByID
       /\ tenantQuerierIDs' = tqa.tenantQuerierIDs
       /\ root' = enqueueBackByPath(root, queuePath, request)
       /\ ret' = ReturnedErr(ErrNone)
       /\ UNCHANGED <<sharedQueuePosition, sssCurrentQuerier, currentQuerier, queriersByID>>

\* enqueueRequestFront with the size check of enqueueRequestBack.
enqueueRequestFrontChecked(request, tenantMaxQueriers) ==
    LET tqa == createOrUpdateTenant(request.tenantID, tenantMaxQueriers)
        queuePath == makeQueuePath(request)
    IN /\ tenantsByID' = tqa.tenantsByID
       /\ tenantQuerierIDs' = tqa.tenantQuerierIDs
       /\ IF TenantQueueIsFull(queuePath)
          THEN /\ root' = root
               /\ ret' = ReturnedErr(ErrTooManyRequests)
          ELSE /\ root' = enqueueFrontByPath(root, queuePath, request)
               /\ ret' = ReturnedErr(ErrNone)
       /\ UNCHANGED <<sharedQueuePosition, sssCurrentQuerier, currentQuerier, queriersByID>>

enqueueRequestFront(request, tenantMaxQueriers) ==
    LET tqa == createOrUpdateTenant(request.tenantID, tenantMaxQueriers)
        queuePath == makeQueuePath(request)
    IN /\ tenantsByID' = tqa.tenantsByID
       /\ tenantQuerierIDs' = tqa.tenantQuerierIDs
       /\ root' = enqueueFrontByPath(root, queuePath, request)
       /\ ret' = ReturnedErr(ErrNone)
       /\ UNCHANGED <<sharedQueuePosition, sssCurrentQuerier, currentQuerier, queriersByID>>

\* The check without its shutting-down half.
QuerierIsUnknown(querierID) == querierID \notin DOMAIN queriersByID

\* The check extended to queriers that hold no connection.
QuerierIsRejectedOrDisconnected(querierID) ==
    \/ querierID \notin DOMAIN queriersByID
    \/ queriersByID[querierID].shuttingDown
    \/ queriersByID[querierID].connections = 0

\* The check that opens dequeueRequestForQuerier: the querier is not
\* registered, or is shutting down.
QuerierIsRejected(querierID) ==
    \/ querierID \notin DOMAIN queriersByID
    \/ queriersByID[querierID].shuttingDown

\* The rejection with the caller's index stored before the check.
dequeueRejectedAfterStore(lastTenantIndex, querierID) ==
    /\ sharedQueuePosition' = lastTenantIndex
    /\ ret' = Returned(NoRequest, NoTenant, lastTenantIndex,
                       ErrQuerierShuttingDown, FALSE)
    /\ UNCHANGED <<root, sssCurrentQuerier, currentQuerier, queriersByID,
                   tenantsByID, tenantQuerierIDs>>

dequeueRejected(lastTenantIndex, querierID) ==
    /\ ret' = Returned(NoRequest, NoTenant, sharedQueuePosition,
                       ErrQuerierShuttingDown, FALSE)
    /\ UNCHANGED brokerVars

\* The tenant ID read from the dequeued path: its second element, after the
\* root's name.
TenantOfPath(queuePath) ==
    IF Len(queuePath) > 1 THEN queuePath[2] ELSE emptyTenantID

\* The test that decides removeTenant: getNode(queuePath[1:]) == nil on the
\* tree after the dequeue.
QueueNodeIsGone(rootAfter, queuePath) == ~HasNode(rootAfter, Tail(queuePath))

\* The dequeue that restarts the rotation on every call instead of taking
\* the caller's index.
dequeueAcceptedFromStart(lastTenantIndex, querierID) ==
    LET d == rootDequeue(root, localQueueIndex)
        tenantID == TenantOfPath(d.path)
        tenant == IF tenantID \in DOMAIN tenantsByID
                  THEN tenantsByID[tenantID] ELSE NoTenant
        tqa == IF QueueNodeIsGone(d.node, d.path)
               THEN removeTenant(tenantID)
               ELSE [tenantsByID |-> tenantsByID, tenantQuerierIDs |-> tenantQuerierIDs]
    IN /\ currentQuerier' = querierID
       /\ sharedQueuePosition' = d.pos
       /\ root' = d.node
       /\ tenantsByID' = tqa.tenantsByID
       /\ tenantQuerierIDs' = tqa.tenantQuerierIDs
       /\ ret' = Returned(d.v, tenant, d.pos, ErrNone, FALSE)
       /\ UNCHANGED <<sssCurrentQuerier, queriersByID>>

\* The dequeue that takes nothing found for a failure.
dequeueAcceptedOrFailed(lastTenantIndex, querierID) ==
    LET d == rootDequeue(root, lastTenantIndex)
    IN /\ currentQuerier' = querierID
       /\ sharedQueuePosition' = d.pos
       /\ root' = d.node
       /\ ret' = Returned(d.v, NoTenant, d.pos,
                          IF d.v = NoRequest THEN ErrQuerierShuttingDown ELSE ErrNone, FALSE)
       /\ UNCHANGED <<sssCurrentQuerier, queriersByID, tenantsByID, tenantQuerierIDs>>

\* The dequeue that returns the request and leaves it in the tree.
dequeueAcceptedKeepingItem(lastTenantIndex, querierID) ==
    LET d == rootDequeue(root, lastTenantIndex)
        tenantID == TenantOfPath(d.path)
        tenant == IF tenantID \in DOMAIN tenantsByID
                  THEN tenantsByID[tenantID] ELSE NoTenant
    IN /\ currentQuerier' = querierID
       /\ sharedQueuePosition' = d.pos
       /\ root' = root
       /\ ret' = Returned(d.v, tenant, d.pos, ErrNone, FALSE)
       /\ UNCHANGED <<sssCurrentQuerier, queriersByID, tenantsByID, tenantQuerierIDs>>

dequeueAccepted(lastTenantIndex, querierID) ==
    LET d == rootDequeue(root, lastTenantIndex)
        tenantID == TenantOfPath(d.path)
        tenant == IF tenantID \in DOMAIN tenantsByID
                  THEN tenantsByID[tenantID] ELSE NoTenant
        tqa == IF QueueNodeIsGone(d.node, d.path)
               THEN removeTenant(tenantID)
               ELSE [tenantsByID |-> tenantsByID, tenantQuerierIDs |-> tenantQuerierIDs]
    IN /\ currentQuerier' = querierID
       /\ sharedQueuePosition' = d.pos
       /\ root' = d.node
       /\ tenantsByID' = tqa.tenantsByID
       /\ tenantQuerierIDs' = tqa.tenantQuerierIDs
       /\ ret' = Returned(d.v, tenant, d.pos, ErrNone, FALSE)
       /\ UNCHANGED <<sssCurrentQuerier, queriersByID>>

dequeueRequestForQuerier(lastTenantIndex, querierID) ==
    IF QuerierIsRejected(querierID)
    THEN dequeueRejected(lastTenantIndex, querierID)
    ELSE dequeueAccepted(lastTenantIndex, querierID)

\* A lifecycle result that keeps the tenants' subsets as they were.
LifecycleResultWithoutReshard(r) ==
    /\ queriersByID' = r.queriers
    /\ ret' = ReturnedResharded(r.resharded)
    /\ UNCHANGED <<root, sharedQueuePosition, sssCurrentQuerier, currentQuerier,
                   tenantsByID, tenantQuerierIDs>>

\* The connection lifecycle: the broker hands over to tenantQuerierAssignments
\* and returns whether the tenants were resharded.
LifecycleResult(r) ==
    /\ queriersByID' = r.queriers
    /\ tenantQuerierIDs' = IF r.resharded
                           THEN recomputeTenantQueriers(tenantsByID, r.queriers)
                           ELSE tenantQuerierIDs
    /\ ret' = ReturnedResharded(r.resharded)
    /\ UNCHANGED <<root, sharedQueuePosition, sssCurrentQuerier, currentQuerier, tenantsByID>>

addQuerierConnection(querierID) == LifecycleResult(tqaAddQuerierConnection(querierID))

removeQuerierConnection(querierID, t) ==
    LifecycleResult(tqaRemoveQuerierConnection(querierID, t))

notifyQuerierShutdown(querierID) == LifecycleResult(tqaNotifyQuerierShutdown(querierID))

\* A sweep that counts the forget delay as already over.
forgetWithoutDelay(t) ==
    LifecycleResult(tqaForgetDisconnectedQueriers(t + querierForgetDelay))

forgetDisconnectedQueriers(t) == LifecycleResult(tqaForgetDisconnectedQueriers(t))

\* ------------------------------------------------------------------------
\* The skip-over dequeue algorithm (tree_queue_algo_query_component_utilization)
\* ------------------------------------------------------------------------

\* Items of the tree are numbered from 1; the nil item.
NoItem == 0

\* The names the children of the tree are given: the queue dimensions of the
\* query components, and a name that is no component's.
ingesterQueueDimension == "ingester"
storeGatewayQueueDimension == "store-gateway"
ingesterAndStoreGatewayQueueDimension == "ingester-and-store-gateway"

\* queryComponentFlags: the component kinds a name stands for.
queryComponentFlags(name) ==
    [isIngester |-> name \in {ingesterQueueDimension, ingesterAndStoreGatewayQueueDimension},
     isStoreGateway |-> name \in {storeGatewayQueueDimension, ingesterAndStoreGatewayQueueDimension}]

\* targetReservedCapacity is a float64 in [0, 1): the model holds the decimal
\* of the configuration in hundredths, h for h/100, and computes
\*   int(math.Ceil(math.Max(targetReservedCapacity * connectedWorkers, 1)))
\* as float64 does. The float64 of h/100 is M * 2^-(52+j), where j is the
\* least exponent with h * 2^j >= 100 and M the whole number nearest to
\* h * 2^(52+j) / 100; 100 * M - h * 2^(52+j) is its excess over the decimal,
\* in hundredths of the last binary place.
CeilOfHundredths(x) == (x + 99) \div 100
MaxOf(x, y) == IF x > y THEN x ELSE y

RECURSIVE Pow2(_)
Pow2(e) == IF e = 0 THEN 1 ELSE 2 * Pow2(e - 1)

RECURSIVE Pow2Mod100(_)
Pow2Mod100(e) == IF e = 0 THEN 1 ELSE (2 * Pow2Mod100(e - 1)) % 100

RECURSIVE Float64ExponentFrom(_, _)
Float64ExponentFrom(h, j) == IF h * Pow2(j) >= 100 THEN j ELSE Float64ExponentFrom(h, j + 1)
Float64Exponent(h) == Float64ExponentFrom(h, 1)

Float64Excess(h) ==
    LET rho == (h * Pow2Mod100(52 + Float64Exponent(h))) % 100
    IN IF rho <= 50 THEN 0 - rho ELSE 100 - rho

RECURSIVE Log2Floor(_)
Log2Floor(q) == IF q <= 1 THEN 0 ELSE 1 + Log2Floor(q \div 2)

\* The float64 product targetReservedCapacity * float64(connectedWorkers) lies
\* above the whole number h * n / 100: the product of M * 2^-(52+j) and n is
\* Float64Excess(h) * n / 100 last places of the capacity above it, and is
\* rounded to the 53 bits of a float64 to the nearest, a tie to the even one,
\* which is the whole number itself. Where h * n / 100 is no whole number the
\* rounding moves the product across none, and math.Ceil gives the exact
\* ceiling.
Float64ProductAbove(h, n) ==
    /\ h * n > 0
    /\ (h * n) % 100 = 0
    /\ Float64Excess(h) > 0
    /\ LET place == Log2Floor((h * n) \div 100) + Float64Exponent(h) - 1
       IN /\ place < 30
          /\ (Float64Excess(h) * n) \div 100 > Pow2(place)

minReservedConnections(u) ==
    IF u.targetReservedCapacity > 0
    THEN CeilOfHundredths(MaxOf(u.targetReservedCapacity * u.connectedWorkers, 100))
         + (IF Float64ProductAbove(u.targetReservedCapacity, u.connectedWorkers) THEN 1 ELSE 0)
    ELSE 0

\* ExceedsThresholdForComponentName: would one more request for the component
\* leave fewer than the reserved share of the connections to the others?
ExceedsThresholdForComponentName(u, name) ==
    IF u.connectedWorkers <= 1
    THEN [exceeds |-> FALSE, component |-> ""]
    ELSE LET flags == queryComponentFlags(name)
         IN IF /\ flags.isIngester
               /\ u.connectedWorkers - u.ingesterInflightRequests <= minReservedConnections(u)
            THEN [exceeds |-> TRUE, component |-> "ingester"]
            ELSE IF /\ flags.isStoreGateway
                    /\ u.connectedWorkers - u.storeGatewayInflightRequests <= minReservedConnections(u)
                 THEN [exceeds |-> TRUE, component |-> "store-gateway"]
                 ELSE [exceeds |-> FALSE, component |-> ""]

TriggerUtilizationCheck(u) == ~(u.waitingWorkers > u.queueLen)

\* The algorithm's state as NewTree is handed it: the cursor at the local
\* queue, no child in the rotation.
NewSkipOverState ==
    [currentNodeOrderIndex |-> localQueueIndex, nodeOrder |-> <<>>,
     nodesChecked |-> 0, nodesSkippedOrder |-> <<>>]

checkedAllNodes(q) ==
    /\ q.nodesChecked = Len(q.nodeOrder) + 1
    /\ Len(q.nodesSkippedOrder) = 0

\* addChildNode inserting at the cursor without moving the cursor on.
qcudAddChildNodeAtCursor(parent, q, child) ==
    LET i == q.currentNodeOrderIndex
    IN [node |-> [parent EXCEPT !.queueMap = (child.name :> child) @@ @],
        qcud |-> IF i = localQueueIndex
                 THEN [q EXCEPT !.nodeOrder = Append(@, child.name)]
                 ELSE [q EXCEPT !.nodeOrder = SubSeq(@, 1, i) \o <<child.name>>
                                               \o SubSeq(@, i + 1, Len(@))]]

\* addChildNode appending the child whatever the cursor.
qcudAddChildNodeAtTail(parent, q, child) ==
    [node |-> [parent EXCEPT !.queueMap = (child.name :> child) @@ @],
     qcud |-> [q EXCEPT !.nodeOrder = Append(@, child.name)]]

\* addChildNode: the child joins the node; its name is appended to the
\* rotation when the cursor is at the local queue, and otherwise inserted
\* at the cursor, which moves on with the child it pointed at.
qcudAddChildNode(parent, q, child) ==
    LET i == q.currentNodeOrderIndex
    IN [node |-> [parent EXCEPT !.queueMap = (child.name :> child) @@ @],
        qcud |-> IF i = localQueueIndex
                 THEN [q EXCEPT !.nodeOrder = Append(@, child.name)]
                 ELSE [q EXCEPT !.nodeOrder = SubSeq(@, 1, i) \o <<child.name>>
                                               \o SubSeq(@, i + 1, Len(@)),
                                !.currentNodeOrderIndex = i + 1]]

\* dequeueSelectNode: what is selected ("node" the local queue, "child" the
\* child `name`, "nil" nothing, "panic" the index out of range of
\* nodeOrder[currentNodeOrderIndex]), the state it leaves and the
\* checkedAllNodes it returns.
Selected(kind, name, q) ==
    [kind |-> kind, name |-> name, qcud |-> q, checkedAllNodes |-> checkedAllNodes(q)]

dequeueSelectNodeWithoutSkip(node, q, u) ==
    IF q.currentNodeOrderIndex = localQueueIndex
    THEN Selected("node", node.name, q)
    ELSE IF q.nodesChecked # Len(q.nodeOrder) + 1
         THEN IF q.currentNodeOrderIndex >= Len(q.nodeOrder)
              THEN Selected("panic", "", q)
              ELSE Selected("child", q.nodeOrder[q.currentNodeOrderIndex + 1],
                            [q EXCEPT !.nodesChecked = @ + 1])
         ELSE Selected("nil", "", q)

dequeueSelectNode(node, q, u) ==
    IF q.currentNodeOrderIndex = localQueueIndex
    THEN Selected("node", node.name, q)
    ELSE IF q.nodesChecked # Len(q.nodeOrder) + 1
         THEN IF q.currentNodeOrderIndex >= Len(q.nodeOrder)
              THEN Selected("panic", "", q)
              ELSE LET currentNodeName == q.nodeOrder[q.currentNodeOrderIndex + 1]
                   IN IF /\ TriggerUtilizationCheck(u)
                         /\ ExceedsThresholdForComponentName(u, currentNodeName).exceeds
                      THEN Selected("nil", "",
                                    [q EXCEPT !.nodesSkippedOrder = Append(@, currentNodeName),
                                              !.currentNodeOrderIndex = @ + 1,
                                              !.nodesChecked = @ + 1])
                      ELSE Selected("child", currentNodeName,
                                    [q EXCEPT !.nodesChecked = @ + 1])
         ELSE IF Len(q.nodesSkippedOrder) > 0
              THEN LET currentNodeName == Head(q.nodesSkippedOrder)
                       q1 == [q EXCEPT !.nodesSkippedOrder = Tail(@)]
                   IN IF currentNodeName \in DOMAIN node.queueMap
                      THEN Selected("child", currentNodeName, q1)
                      ELSE Selected("nil", "", q1)
              ELSE Selected("nil", "", q)

\* The slice without the first element equal to name.
RECURSIVE RemoveFirst(_, _)
RemoveFirst(order, name) ==
    IF order = <<>> THEN <<>>
    ELSE IF Head(order) = name THEN Tail(order)
         ELSE <<Head(order)>> \o RemoveFirst(Tail(order), name)

\* The end of dequeueUpdateState without the wrap to the local queue.
ResetWithoutWrap(q) == [q EXCEPT !.nodesChecked = 0]

\* The end of dequeueUpdateState: a cursor past the last child wraps to the
\* local queue, and the count of nodes checked starts again.
WrapAndReset(q) ==
    [q EXCEPT !.currentNodeOrderIndex =
                  IF @ >= Len(q.nodeOrder) THEN localQueueIndex ELSE @,
              !.nodesChecked = 0]

dequeueUpdateStateKeepingOrder(node, q, kind, name) ==
    IF kind = "nil"
    THEN [node |-> node, qcud |-> q]
    ELSE IF kind = "child" /\ IsEmpty(node.queueMap[name])
         THEN [node |-> [node EXCEPT !.queueMap =
                            [c \in DOMAIN @ \ {name} |-> @[c]]],
               qcud |-> WrapAndReset(q)]
         ELSE [node |-> node,
               qcud |-> WrapAndReset([q EXCEPT !.currentNodeOrderIndex = @ + 1])]

\* dequeueUpdateState: nothing after a nil selection; an emptied child leaves
\* the node and the rotation with the cursor staying; otherwise the cursor
\* advances; past the last child it wraps to the local queue; the count of
\* nodes checked starts again.
dequeueUpdateState(node, q, kind, name) ==
    IF kind = "nil"
    THEN [node |-> node, qcud |-> q]
    ELSE IF kind = "child" /\ IsEmpty(node.queueMap[name])
         THEN [node |-> [node EXCEPT !.queueMap =
                            [c \in DOMAIN @ \ {name} |-> @[c]]],
               qcud |-> WrapAndReset([q EXCEPT !.nodeOrder = RemoveFirst(@, name)])]
         ELSE [node |-> node,
               qcud |-> WrapAndReset([q EXCEPT !.currentNodeOrderIndex = @ + 1])]

\* Node.dequeue at the root of the tree (design document 4.1, 4.5): the
\* algorithm selects, the item is taken from the local queue or from the
\* selected child, the algorithm is told where the item came from, and so on
\* until an item is found or the algorithm reports every node checked.  A
\* nil selection takes nothing and the loop goes on.
Dequeued(node, q, path, v, panicked) ==
    [node |-> node, qcud |-> q, path |-> path, v |-> v, panicked |-> panicked]

RECURSIVE treeDequeueLoop(_, _, _)
treeDequeueLoop(node, q, u) ==
    LET sel == dequeueSelectNode(node, q, u)
    IN CASE sel.kind = "panic" -> Dequeued(node, sel.qcud, <<>>, NoItem, TRUE)
         [] sel.kind = "node" ->
              IF Len(node.localQueue) > 0
              THEN LET n1 == [node EXCEPT !.localQueue = Tail(@)]
                       s == dequeueUpdateState(n1, sel.qcud, "node", sel.name)
                   IN Dequeued(s.node, s.qcud, <<>>, Head(node.localQueue), FALSE)
              ELSE LET s == dequeueUpdateState(node, sel.qcud, "node", sel.name)
                   IN IF sel.checkedAllNodes
                      THEN Dequeued(s.node, s.qcud, <<>>, NoItem, FALSE)
                      ELSE treeDequeueLoop(s.node, s.qcud, u)
         [] sel.kind = "child" ->
              LET child == node.queueMap[sel.name]
                  found == ~IsEmpty(child)
                  r == NodeDequeue(child)
                  n1 == [node EXCEPT !.queueMap[sel.name] = r.node]
                  s == dequeueUpdateState(n1, sel.qcud, "child", sel.name)
              IN IF found
                 THEN Dequeued(s.node, s.qcud, r.path, r.v, FALSE)
                 ELSE IF sel.checkedAllNodes
                      THEN Dequeued(s.node, s.qcud, <<>>, NoItem, FALSE)
                      ELSE treeDequeueLoop(s.node, s.qcud, u)
         [] sel.kind = "nil" ->
              IF sel.checkedAllNodes
              THEN Dequeued(node, sel.qcud, <<>>, NoItem, FALSE)
              ELSE treeDequeueLoop(node, sel.qcud, u)

\* Tree.Dequeue: nothing is asked of the algorithm when the tree is empty;
\* the path returned leaves the root's name out.
TreeDequeueOf(node, q, u) ==
    IF IsEmpty(node)
    THEN Dequeued(node, q, <<>>, NoItem, FALSE)
    ELSE treeDequeueLoop(node, q, u)

\* Tree.EnqueueBackByPath for the path of a child of the root: a missing
\* child is created and registered with the algorithm's addChildNode.
TreeEnqueueBackByPath(node, q, name, v) ==
    LET a == IF name \in DOMAIN node.queueMap
             THEN [node |-> node, qcud |-> q]
             ELSE qcudAddChildNode(node, q, NewNode(name))
    IN [node |-> [a.node EXCEPT !.queueMap[name] = enqueueBackByPath(@, <<>>, v)],
        qcud |-> a.qcud]

\* ------------------------------------------------------------------------
\* LazyBinaryReader (package indexheader, in pkg/streams/chunk_buffer_test.go)
\* ------------------------------------------------------------------------

\* The goroutines that call the LazyBinaryReader, and the goroutine getReader
\* leaves behind to take the response when its context is done.
Callers == {"c1", "c2"}
NoCaller == ""
waitAndCloseReader == "waitAndCloseReader"

\* Readers are numbered from 1 in the order the factory returns them; the nil
\* Reader.
NoReader == 0

errNotIdle == "the reader is not idle"
errUnloadedWhileLoading == "the index-header has been concurrently unloaded"
errGate == "failed to wait for turn"
errFactory == "lazy load index-header file"
errClose == "closing binary reader"
errContext == "context canceled"

\* loadedReader: an attempt to load a Reader.  Its inUse WaitGroup is kept
\* with the reader it was made for.
loadedReader(reader, err) == [reader |-> reader, err |-> err]
notLoaded == loadedReader(NoReader, ErrNone)

\* A Reader as the factory returns it: its WaitGroup counter, whether Close
\* was called on it ("open", then "failed" or "closed"), and who has still to
\* signal the WaitGroup beside the callers: waitAndCloseReader goroutines and
\* open lazySymbolsReaders.
NewReader == [inUse |-> 0, close |-> "open", orphans |-> 0, symbols |-> 0]

\* What a call returned: the function called and its error.
CallReturn(op, err) == [op |-> op, err |-> err]
NoReturn == CallReturn("", ErrNone)

\* A caller between calls.  During a call reloadFrom tells whether the call
\* began on a reader that had been unloaded: it is then the number of readers
\* the factory had returned by that time, and 0 otherwise.
IdleCaller == [at |-> "idle", ctxDone |-> FALSE, reader |-> NoReader, reloadFrom |-> 0]

\* Nothing is loaded and nothing failed to load, after a Close that unloaded.
IsUnloadedByClose ==
    /\ loop.loaded = notLoaded
    /\ \E g \in DOMAIN readers : readers[g].close = "closed"

\* NewLazyBinaryReader: nothing is loaded, usedAt is 0, and the control loop
\* is started.
NewLazyBinaryReader ==
    /\ loop = [at |-> "select", loaded |-> notLoaded, peer |-> NoCaller,
               idleSinceNanos |-> 0]
    /\ readers = <<>>
    /\ usedAt = 0
    /\ lazyNow = 1
    /\ callers = [c \in Callers |-> IdleCaller]
    /\ cancels = 0
    /\ lazyRet = NoReturn

\* LoadedLastUse and IsIdleSince.
LoadedLastUse == usedAt
IsIdleSince(ts) == LoadedLastUse # 0 /\ LoadedLastUse <= ts

\* controlLoop, case readerReq: a loaded reader is counted in use and stamped
\* before it is sent; the loop then stands at the send of the response.
controlLoopReaderRequest(c) ==
    /\ loop.at = "select"
    /\ loop' = [loop EXCEPT !.at = "respond", !.peer = c]
    /\ IF loop.loaded.reader # NoReader
       THEN /\ readers' = [readers EXCEPT ![loop.loaded.reader].inUse = @ + 1]
            /\ usedAt' = lazyNow
       ELSE UNCHANGED <<readers, usedAt>>

\* loadReader: the gate may refuse, the factory may fail, or the factory
\* returns a new Reader.
LoadOutcomes == {errGate, errFactory, ErrNone}

\* A load request that loads only what was never loaded before.
MustLoadOnce(ld) == ld.reader = NoReader /\ ld.err = ErrNone /\ readers = <<>>

\* A load request that loads whether or not a reader is loaded.
MustLoadOverLoaded(ld) == ld.err = ErrNone

\* controlLoop, case loadReq: a load is attempted when nothing is loaded and
\* the last attempt left no error.
MustLoad(ld) == ld.reader = NoReader /\ ld.err = ErrNone

\* controlLoop, case loadReq, the request of c taken: the loop goes into
\* loadReader, where it waits for the gate and the factory, or has nothing to
\* load and closes the done channel at once.
controlLoopLoadRequest(c) ==
    /\ loop.at = "select"
    /\ loop' = IF MustLoad(loop.loaded)
               THEN [loop EXCEPT !.at = "loading", !.peer = c]
               ELSE loop

\* controlLoop, case loadReq, loadReader returned: its reader or its error is
\* kept as loaded, a reader is stamped, and the done channel is closed.
controlLoopLoadReader(outcome) ==
    /\ loop.at = "loading"
    /\ IF outcome = ErrNone
       THEN /\ Len(readers) < MaxLoads
            /\ readers' = Append(readers, NewReader)
            /\ loop' = [loop EXCEPT !.at = "select", !.peer = NoCaller,
                                    !.loaded = loadedReader(Len(readers) + 1, ErrNone)]
            /\ usedAt' = lazyNow
       ELSE /\ loop' = [loop EXCEPT !.at = "select", !.peer = NoCaller,
                                    !.loaded = loadedReader(NoReader, outcome)]
            /\ UNCHANGED <<readers, usedAt>>

\* An unload request on an unloaded reader that is answered by the idle check.
AnswerUnloadedByIdleness(ts) == IF ts > 0 THEN errNotIdle ELSE ErrNone

\* controlLoop, case unloadPromise: the answer when nothing is loaded.
AnswerUnloaded(ts) == ErrNone

\* controlLoop, case unloadPromise: "do not unload if not idle".
IsNotIdle(ts, used) == ts > 0 /\ used > ts

\* An unload that does not wait for the users of the reader.
inUseNoWait(g) == TRUE

\* loaded.inUse.Wait() returns when the counter is zero.
inUseWait(g) == readers[g].inUse = 0

\* controlLoop, case unloadPromise, up to the wait: the request is answered
\* at once, or the loop goes on to wait for the users of the reader.
UnloadAnswered(ts) ==
    loop.loaded.reader = NoReader \/ IsNotIdle(ts, usedAt)

UnloadAnswer(ts) ==
    IF loop.loaded.reader = NoReader THEN AnswerUnloaded(ts) ELSE errNotIdle

\* controlLoop, case unloadPromise, after Close: loaded is reset when Close
\* returned no error, and kept when it returned one.
AfterClose(closeErr) == IF closeErr = ErrNone THEN notLoaded ELSE loop.loaded

\* controlLoop, case unloadPromise, from the wait on: Close is called on the
\* reader once nobody uses it.
controlLoopUnload(closeErr) ==
    LET g == loop.loaded.reader
    IN /\ loop.at = "wait"
       /\ inUseWait(g)
       /\ readers' = [readers EXCEPT ![g].close =
                          IF closeErr = ErrNone THEN "closed" ELSE "failed"]
       /\ loop' = [loop EXCEPT !.at = "select", !.peer = NoCaller,
                               !.idleSinceNanos = 0,
                               !.loaded = AfterClose(closeErr)]
       /\ usedAt' = IF closeErr = ErrNone THEN 0 ELSE usedAt

\* ------------------------------------------------------------------------
\* The callers and the specification
\* ------------------------------------------------------------------------

\* newQueueBroker: an empty tree, no querier and no tenant.  The shuffle-shard
\* state is given the address of the constructor's local currentQuerier, the
\* broker a copy of its value: two variables from here on.
newQueueBroker ==
    /\ root = NewNode("root")
    /\ sharedQueuePosition = 0
    /\ sssCurrentQuerier = ""
    /\ currentQuerier = ""
    /\ queriersByID = EmptyMap
    /\ tenantsByID = EmptyMap
    /\ tenantQuerierIDs = EmptyMap
    /\ maxTenantQueueSize \in MaxTenantQueueSizes
    /\ additionalQueueDimensionsEnabled \in BOOLEAN
    /\ querierForgetDelay \in ForgetDelays
    /\ now = 0
    /\ nextID = 1
    /\ inflight = {}
    /\ fronted = {}
    /\ lastTenantIndexOf = [q \in Queriers |-> localQueueIndex]
    /\ lastServed = emptyTenantID
    /\ waiting = {}
    /\ ret = ReturnedErr(ErrNone)

\* The utilization the tree's test is run with: ten workers connected, one
\* waiting, nothing queued, nothing in flight, 0.4 of the connections
\* reserved.
testUtilization ==
    [connectedWorkers |-> 10, waitingWorkers |-> 1, queueLen |-> 0,
     targetReservedCapacity |-> 40,
     ingesterInflightRequests |-> 0, storeGatewayInflightRequests |-> 0]

\* NewTree(&queryComponentUtilizationQueueAlgo, &roundRobinState{}): an empty
\* root under the skip-over algorithm, whose threshold is computed from u.
NewTree(u) ==
    /\ tree = NewNode("root")
    /\ qcud = NewSkipOverState
    /\ qcurc = u
    /\ nextObj = 1
    /\ treeRet = [path |-> <<>>, v |-> NoItem, panicked |-> FALSE]
    /\ threshold = [name |-> "", exceeds |-> FALSE, component |-> ""]

Init ==
    /\ newQueueBroker
    /\ NewTree(testUtilization)
    /\ NewLazyBinaryReader

\* A new request is enqueued at the back.
EnqueueBackOf(limit, dimensions, widths) ==
    \E t \in Tenants, dims \in dimensions, m \in widths :
        /\ nextID <= limit
        /\ enqueueRequestBack([tenantID |-> t, id |-> nextID, dims |-> dims], m)
        /\ nextID' = IF ret'.err = ErrNone THEN nextID + 1 ELSE nextID
        /\ UNCHANGED <<now, inflight, fronted>>
        /\ UNCHANGED rotationVars
        /\ UNCHANGED configVars
        /\ UNCHANGED treeVars
        /\ UNCHANGED readerVars

\* A request whose dispatch failed is put back at the front.
EnqueueFrontOf(widths) ==
    \E r \in inflight, m \in widths :
        /\ enqueueRequestFront(r, m)
        /\ inflight' = inflight \ {r}
        /\ fronted' = fronted \cup {r.id}
        /\ UNCHANGED <<now, nextID>>
        /\ UNCHANGED rotationVars
        /\ UNCHANGED configVars
        /\ UNCHANGED treeVars
        /\ UNCHANGED readerVars

\* A querier asks for its next request, from a position of the rotation (or
\* the sentinel, or a position the rotation has shrunk below).  The request
\* it gets is held by the querier when `held`, and is done with otherwise.
DequeueOf(queriers, held) ==
    \E q \in queriers, last \in localQueueIndex .. Len(root.queueOrder) :
        /\ dequeueRequestForQuerier(last, q)
        /\ inflight' = IF held /\ ret'.request # NoRequest
                       THEN inflight \cup {ret'.request} ELSE inflight
        /\ fronted' = fronted \ {ret'.request.id}
        /\ UNCHANGED <<now, nextID>>
        /\ UNCHANGED rotationVars
        /\ UNCHANGED configVars
        /\ UNCHANGED treeVars
        /\ UNCHANGED readerVars

\* The tenants with requests pending in tree n.
PendingTenants(n) == {t \in DOMAIN n.queueMap : ItemCount(n.queueMap[t]) > 0}

\* A querier asks for its next request the way the scheduler's querier loop
\* does: with the position its own previous call returned.
DequeueThreadedOf(queriers) ==
    \E q \in queriers :
        /\ dequeueRequestForQuerier(lastTenantIndexOf[q], q)
        /\ lastTenantIndexOf' = [lastTenantIndexOf EXCEPT ![q] = ret'.position]
        /\ IF ret'.request # NoRequest
           THEN /\ lastServed' = ret'.request.tenantID
                /\ waiting' = PendingTenants(root') \ {ret'.request.tenantID}
           ELSE UNCHANGED <<lastServed, waiting>>
        /\ UNCHANGED <<now, nextID, inflight, fronted>>
        /\ UNCHANGED configVars
        /\ UNCHANGED treeVars
        /\ UNCHANGED readerVars

AddQuerierConnectionOf(queriers) ==
    \E q \in queriers :
        /\ q \in DOMAIN queriersByID => queriersByID[q].connections < MaxConnections
        /\ addQuerierConnection(q)
        /\ UNCHANGED now
        /\ UNCHANGED requestVars
        /\ UNCHANGED rotationVars
        /\ UNCHANGED configVars
        /\ UNCHANGED treeVars
        /\ UNCHANGED readerVars

\* A querier that is not registered connects.
RegisterQuerierOf(queriers) ==
    \E q \in queriers :
        /\ q \notin DOMAIN queriersByID
        /\ addQuerierConnection(q)
        /\ UNCHANGED now
        /\ UNCHANGED requestVars
        /\ UNCHANGED rotationVars
        /\ UNCHANGED configVars
        /\ UNCHANGED treeVars
        /\ UNCHANGED readerVars

\* A connection is closed: only a querier that holds one can close it.
RemoveQuerierConnection ==
    \E q \in DOMAIN queriersByID :
        /\ queriersByID[q].connections > 0
        /\ removeQuerierConnection(q, now)
        /\ UNCHANGED now
        /\ UNCHANGED requestVars
        /\ UNCHANGED rotationVars
        /\ UNCHANGED configVars
        /\ UNCHANGED treeVars
        /\ UNCHANGED readerVars

NotifyQuerierShutdown ==
    \E q \in Queriers :
        /\ notifyQuerierShutdown(q)
        /\ UNCHANGED now
        /\ UNCHANGED requestVars
        /\ UNCHANGED rotationVars
        /\ UNCHANGED configVars
        /\ UNCHANGED treeVars
        /\ UNCHANGED readerVars

ForgetDisconnectedQueriers ==
    /\ forgetDisconnectedQueriers(now)
    /\ UNCHANGED now
    /\ UNCHANGED requestVars
    /\ UNCHANGED rotationVars
    /\ UNCHANGED configVars
    /\ UNCHANGED treeVars
    /\ UNCHANGED readerVars

Tick ==
    /\ now < MaxTime
    /\ now' = now + 1
    /\ UNCHANGED ret
    /\ UNCHANGED requestVars
    /\ UNCHANGED rotationVars
    /\ UNCHANGED brokerVars
    /\ UNCHANGED configVars
    /\ UNCHANGED treeVars
    /\ UNCHANGED readerVars

\* The broker with its queriers coming and going: requests without queue
\* dimensions, dispatched for good once dequeued.
EnqueueBack == EnqueueBackOf(MaxLifecycleRequests, {<<>>}, MaxQueriersChoices)
Dequeue == DequeueOf(Queriers, FALSE)
AddQuerierConnection == AddQuerierConnectionOf(Queriers)

Next ==
    \/ EnqueueBack
    \/ Dequeue
    \/ AddQuerierConnection
    \/ RemoveQuerierConnection
    \/ NotifyQuerierShutdown
    \/ ForgetDisconnectedQueriers
    \/ Tick

\* newQueueBroker(1, false, forgetDelay).
InitLifecycle ==
    /\ Init
    /\ ~additionalQueueDimensionsEnabled
    /\ maxTenantQueueSize = 1

Spec == InitLifecycle /\ [][Next]_vars

\* The queues of the tenants: requests with and without queue dimensions,
\* unsharded tenants, one querier, failed dispatches re-enqueued at the front.
EnqueueBackQ == EnqueueBackOf(MaxRequests, Dimensions, {0})
EnqueueFrontQ == EnqueueFrontOf({0})
DequeueQ == DequeueOf({"q1"}, TRUE)
RegisterQuerierQ == RegisterQuerierOf({"q1"})

NextQueue ==
    \/ EnqueueBackQ
    \/ EnqueueFrontQ
    \/ DequeueQ
    \/ RegisterQuerierQ

SpecQueue == Init /\ [][NextQueue]_vars

\* The rotation over unsharded tenants, each querier passing the position its
\* own previous call returned.
EnqueueBackR == EnqueueBackOf(MaxRotationRequests, {<<>>}, {0})
DequeueR == DequeueThreadedOf(Queriers)
RegisterQuerierR == RegisterQuerierOf(Queriers)

NextRotation ==
    \/ EnqueueBackR
    \/ DequeueR
    \/ RegisterQuerierR

\* newQueueBroker(2, false, forgetDelay).
InitRotation ==
    /\ Init
    /\ ~additionalQueueDimensionsEnabled
    /\ maxTenantQueueSize = 2

SpecRotation == InitRotation /\ [][NextRotation]_vars

brokerSide == <<brokerVars, configVars, requestVars, rotationVars, now, ret>>

\* An item is enqueued at the back of a child of the tree's root.
TreeEnqueueOf(limit, names) ==
    \E name \in names :
        LET r == TreeEnqueueBackByPath(tree, qcud, name, nextObj)
        IN /\ nextObj <= limit
           /\ ~treeRet.panicked
           /\ tree' = r.node
           /\ qcud' = r.qcud
           /\ nextObj' = nextObj + 1
           /\ UNCHANGED <<qcurc, treeRet, threshold>>
           /\ UNCHANGED brokerSide
           /\ UNCHANGED readerVars

\* Tree.Dequeue.  A panic ends the process: nothing runs after it.
TreeDequeue ==
    LET r == TreeDequeueOf(tree, qcud, qcurc)
    IN /\ ~treeRet.panicked
       /\ tree' = r.node
       /\ qcud' = r.qcud
       /\ treeRet' = [path |-> r.path, v |-> r.v, panicked |-> r.panicked]
       /\ UNCHANGED <<qcurc, nextObj, threshold>>
       /\ UNCHANGED brokerSide
       /\ UNCHANGED readerVars

\* The tree under the skip-over algorithm, its children named after the query
\* components or not, under a utilization that stays as it is.
ChildNames == {ingesterQueueDimension, storeGatewayQueueDimension, "child-1"}
TreeUtilizations ==
    [connectedWorkers : {10}, waitingWorkers : {0, 1}, queueLen : {0},
     targetReservedCapacity : {0, 40},
     ingesterInflightRequests : {0, 6, 10}, storeGatewayInflightRequests : {0, 6}]

ThresholdNames == ChildNames \cup {ingesterAndStoreGatewayQueueDimension}
\* The utilizations the threshold is asked under: every number of workers and
\* of requests in flight up to MaxWorkers under exact products, and 25 workers
\* with 0.28 and 0.56 reserved, whose float64 products lie above 7 and 14.
ThresholdUtilizations ==
    [connectedWorkers : 0 .. MaxWorkers, waitingWorkers : {0}, queueLen : {0},
     targetReservedCapacity : {0, 25, 40, 50},
     ingesterInflightRequests : 0 .. MaxWorkers,
     storeGatewayInflightRequests : 0 .. MaxWorkers]
    \cup
    [connectedWorkers : {25}, waitingWorkers : {0}, queueLen : {0},
     targetReservedCapacity : {28, 56},
     ingesterInflightRequests : {10, 17, 18},
     storeGatewayInflightRequests : {10, 17, 18}]

TreeEnqueue == TreeEnqueueOf(MaxTreeItems, ChildNames)

NextTree ==
    \/ TreeEnqueue
    \/ TreeDequeue

InitTree ==
    /\ newQueueBroker
    /\ ~additionalQueueDimensionsEnabled
    /\ maxTenantQueueSize = 1
    /\ \E u \in TreeUtilizations : NewTree(u)
    /\ NewLazyBinaryReader

SpecTree == InitTree /\ [][NextTree]_vars

\* The utilization the check reads changes between the calls of the tree:
\* workers connect and wait, requests go in flight and come back.
SetUtilization ==
    \E u \in TreeUtilizations :
        /\ ~treeRet.panicked
        /\ u # qcurc
        /\ qcurc' = u
        /\ UNCHANGED <<tree, qcud, nextObj, treeRet, threshold>>
        /\ UNCHANGED brokerSide
        /\ UNCHANGED readerVars

NextTreeLoad ==
    \/ TreeEnqueue
    \/ TreeDequeue
    \/ SetUtilization

SpecTreeLoad == InitTree /\ [][NextTreeLoad]_vars

\* ExceedsThresholdForComponentName is asked about a name.
CheckThreshold ==
    \E name \in ThresholdNames :
        LET r == ExceedsThresholdForComponentName(qcurc, name)
        IN /\ threshold' = [name |-> name, exceeds |-> r.exceeds, component |-> r.component]
           /\ UNCHANGED <<tree, qcud, qcurc, nextObj, treeRet>>
           /\ UNCHANGED brokerSide
           /\ UNCHANGED readerVars

NextThreshold == CheckThreshold

\* The threshold alone, over the numbers of workers and of requests in
\* flight and the reserved capacities 0, 0.25, 0.4 and 0.5, and over 25
\* workers with 0.28 and 0.56 reserved.
InitThreshold ==
    /\ newQueueBroker
    /\ ~additionalQueueDimensionsEnabled
    /\ maxTenantQueueSize = 1
    /\ \E u \in ThresholdUtilizations : NewTree(u)
    /\ NewLazyBinaryReader

SpecThreshold == InitThreshold /\ [][NextThreshold]_vars

\* The broker and the tree side by side, each filled and drained: one
\* querier, requests without queue dimensions, the utilization of the test.
EnqueueBackD == EnqueueBackOf(MaxLifecycleRequests, {<<>>}, {0})
DequeueD == DequeueOf({"q1"}, FALSE)
RegisterQuerierD == RegisterQuerierOf({"q1"})
TreeEnqueueD == TreeEnqueueOf(MaxDrainItems, ChildNames)

NextDrain ==
    \/ EnqueueBackD
    \/ DequeueD
    \/ RegisterQuerierD
    \/ TreeEnqueueD
    \/ TreeDequeue

SpecDrain == InitLifecycle /\ [][NextDrain]_vars

\* The backlog limit: tenants enqueued to with and without a shard width and
\* with and without queue dimensions, two queriers, failed dispatches
\* re-enqueued at the front without a shard width.
EnqueueBackB == EnqueueBackOf(MaxBacklogRequests, Dimensions, MaxQueriersChoices)
EnqueueFrontB == EnqueueFrontOf({0})
DequeueB == DequeueOf({"q1"}, TRUE)
RegisterQuerierB == RegisterQuerierOf(Queriers)

NextBacklog ==
    \/ EnqueueBackB
    \/ EnqueueFrontB
    \/ DequeueB
    \/ RegisterQuerierB

\* newQueueBroker(1, true, forgetDelay).
InitBacklog ==
    /\ Init
    /\ additionalQueueDimensionsEnabled
    /\ maxTenantQueueSize = 1

SpecBacklog == InitBacklog /\ [][NextBacklog]_vars

\* ------------------------------------------------------------------------
\* The claims
\* ------------------------------------------------------------------------

\* The positions a caller can pass as lastTenantIndex.
Positions == localQueueIndex .. MaxRequests

\* The number of requests a tenant has queued, over its whole subtree.
TenantItemCount(t) ==
    IF t \in DOMAIN root.queueMap THEN ItemCount(root.queueMap[t]) ELSE 0

\* The queriers a tenant's requests may go to: its shuffle shard, or, without
\* sharding, every registered querier that is not shutting down.
EligibleQueriers(t) ==
    IF t \in DOMAIN tenantsByID /\ tenantsByID[t].maxQueriers > 0
    THEN tenantQuerierIDs[t].ids
    ELSE QuerierPool(queriersByID)

\* C1: whenever dequeueRequestForQuerier(_, q) returns a request of tenant t,
\* q is in t's eligible-querier set at that moment, and the tenants that are
\* not assigned to q keep their place in the rotation and their requests.
C1_ShuffleShardIsolation ==
    [][\A q \in Queriers, last \in Positions :
          (dequeueRequestForQuerier(last, q) /\ ret'.request # NoRequest)
          => /\ q \in EligibleQueriers(ret'.request.tenantID)
             /\ \A t \in DOMAIN root.queueMap :
                    q \notin EligibleQueriers(t)
                    => /\ t \in DOMAIN root'.queueMap
                       /\ root'.queueMap[t] = root.queueMap[t]]_vars

\* C2: enqueueRequestBack returns ErrTooManyRequests whenever the tenant's
\* queued item count is already at or above maxTenantQueueSize, a tenant
\* without a queue subtree (count zero) included.
C2_BacklogEnforcement ==
    [][\A t \in Tenants, dims \in Dimensions, m \in MaxQueriersChoices :
          (/\ enqueueRequestBack([tenantID |-> t, id |-> nextID, dims |-> dims], m)
           /\ TenantItemCount(t) >= maxTenantQueueSize)
          => ret'.err = ErrTooManyRequests]_vars

\* The local queue of the node a request is enqueued at, in tree n.
QueueOf(n, request) ==
    IF HasNode(n, makeQueuePath(request))
    THEN GetNode(n, makeQueuePath(request)).localQueue
    ELSE <<>>

\* C3: enqueueRequestFront never returns ErrTooManyRequests: it is accepted
\* whatever the tenant's item count, and the request is put at the head of
\* its node's queue, ahead of what was queued there.
C3_EnqueueFrontAlwaysAccepted ==
    [][\A r \in inflight, m \in MaxQueriersChoices :
          enqueueRequestFront(r, m)
          => /\ ret'.err = ErrNone
             /\ QueueOf(root', r) = <<r>> \o QueueOf(root, r)
             /\ ItemCount(root') = ItemCount(root) + 1]_vars

\* C3's case: a request was put back at the front of a queue that was full,
\* so that the tenant holds more than the maximum.
C3_Witness ==
    /\ maxTenantQueueSize >= 1
    /\ ret.err = ErrNone
    /\ \E t \in Tenants :
          /\ TenantItemCount(t) > maxTenantQueueSize
          /\ \E r \in UNION {{n.localQueue[i] : i \in DOMAIN n.localQueue} :
                              n \in {root.queueMap[t]}
                                    \cup {root.queueMap[t].queueMap[c] :
                                            c \in DOMAIN root.queueMap[t].queueMap}} :
                 r.id \in fronted /\ Head(QueueOf(root, r)) = r

\* C4: a dequeueRequestForQuerier by a querier that is not registered or is
\* shutting down returns ErrQuerierShuttingDown with a nil request, a nil
\* tenant and the stored shared position, and changes neither the tree with
\* its rotation, nor the tenants, nor the shared position.
C4_RejectedDequeue ==
    [][\A q \in Queriers, last \in Positions :
          (/\ dequeueRequestForQuerier(last, q)
           /\ (q \notin DOMAIN queriersByID \/ queriersByID[q].shuttingDown))
          => /\ ret' = Returned(NoRequest, NoTenant, sharedQueuePosition,
                                ErrQuerierShuttingDown, FALSE)
             /\ UNCHANGED <<root, tenantsByID, tenantQuerierIDs,
                            sharedQueuePosition, queriersByID>>]_vars

\* C4's case: a dequeue was rejected while requests were queued, and returned
\* the stored position although every position a caller can pass from the
\* sentinel on would have found a request.
C4_Witness ==
    /\ ret.err = ErrQuerierShuttingDown
    /\ ret.position = sharedQueuePosition
    /\ ret.position # localQueueIndex
    /\ \E t \in Tenants : TenantItemCount(t) > 0 /\ TenantQuerierSet(t).all

\* A querier in its grace period: registered, no connection left, not
\* shutting down.
InGracePeriod(q) ==
    /\ q \in DOMAIN queriersByID
    /\ queriersByID[q].connections = 0
    /\ ~queriersByID[q].shuttingDown

\* A querier in its grace period leaves the querier table only by a
\* forget-delay sweep that comes at least the forget delay after its
\* disconnection.
GraceEndsBySweep(q) ==
    (InGracePeriod(q) /\ q \notin DOMAIN queriersByID')
    => /\ forgetDisconnectedQueriers(now)
       /\ now - queriersByID[q].disconnectedAt >= querierForgetDelay

\* C5 as claimed: dequeueRequestForQuerier never returns a request to a
\* querier in its grace period, and the querier stays in the querier table
\* until the forget-delay sweep purges it.
C5_GracePeriodNoDispatch ==
    [][\A q \in Queriers :
          /\ \A last \in Positions :
                (dequeueRequestForQuerier(last, q) /\ InGracePeriod(q))
                => ret'.request = NoRequest
          /\ GraceEndsBySweep(q)]_vars

\* C5 as amended: a querier in its grace period stays in the querier table
\* until the forget-delay sweep purges it, and until then its
\* dequeueRequestForQuerier is not rejected: it returns no error, and a
\* request whenever a tenant without sharding has one queued.
C5_GracePeriodStillServed ==
    [][\A q \in Queriers :
          /\ \A last \in Positions :
                (dequeueRequestForQuerier(last, q) /\ InGracePeriod(q))
                => /\ ret'.err = ErrNone
                   /\ (\E t \in DOMAIN tenantsByID :
                          tenantsByID[t].maxQueriers <= 0 /\ TenantItemCount(t) > 0)
                      => ret'.request # NoRequest
          /\ GraceEndsBySweep(q)]_vars

\* C5's case: the querier the last request went to is in its grace period.
C5_Witness ==
    /\ ret.request # NoRequest
    /\ InGracePeriod(currentQuerier)
    /\ now - queriersByID[currentQuerier].disconnectedAt < querierForgetDelay

\* The state notifyQuerierShutdown(q) leaves q in, and a purge keeps it in:
\* marked as shutting down, or not registered.
IsShutDown(q) == q \notin DOMAIN queriersByID \/ queriersByID[q].shuttingDown

\* C6: after notifyQuerierShutdown(q), every dequeueRequestForQuerier(_, q) is
\* rejected with ErrQuerierShuttingDown and dispatches nothing, until
\* addQuerierConnection(q) registers q again: only that call ends the
\* shut-down state, and it always does.
C6_ShutdownUntilReconnect ==
    [][\A q \in Queriers :
          /\ notifyQuerierShutdown(q) => IsShutDown(q)'
          /\ (IsShutDown(q) /\ ~IsShutDown(q)') => addQuerierConnection(q)
          /\ addQuerierConnection(q) => ~IsShutDown(q)'
          /\ \A last \in Positions :
                (dequeueRequestForQuerier(last, q) /\ IsShutDown(q))
                => /\ ret'.err = ErrQuerierShuttingDown
                   /\ ret'.request = NoRequest
                   /\ root' = root]_vars

\* C6's case: every querier is registered and was notified to shut down, a
\* request a querier could get is queued, and the last dequeue was rejected.
C6_Witness ==
    /\ \A q \in Queriers : q \in DOMAIN queriersByID /\ queriersByID[q].shuttingDown
    /\ \E t \in Tenants : TenantItemCount(t) > 0 /\ TenantQuerierSet(t).all
    /\ ret.err = ErrQuerierShuttingDown

\* C7: every tenant that has a request queued anywhere in its subtree is
\* registered in the tenant table; the registration goes only when the whole
\* subtree has been emptied and pruned.
C7_RegistrationTracksSubtree ==
    \A t \in Tenants : TenantItemCount(t) > 0 => t \in DOMAIN tenantsByID

\* C8: a dequeueRequestForQuerier that returns a request returns with it the
\* tenant of that request, never a nil tenant.
C8_RequestComesWithTenant ==
    ret.request # NoRequest
    => /\ ret.tenant # NoTenant
       /\ ret.tenant.tenantID = ret.request.tenantID

\* The requests queued in the subtree of node n.
RECURSIVE ChildItems(_, _)
RECURSIVE SubtreeItems(_)
ChildItems(n, names) ==
    IF names = {} THEN {}
    ELSE LET c == CHOOSE x \in names : TRUE
         IN SubtreeItems(n.queueMap[c]) \cup ChildItems(n, names \ {c})

SubtreeItems(n) ==
    {n.localQueue[i] : i \in 1 .. Len(n.localQueue)} \cup ChildItems(n, DOMAIN n.queueMap)

\* The requests queued for tenant t, in all its queues.
TenantItems(t) ==
    IF t \in DOMAIN root.queueMap THEN SubtreeItems(root.queueMap[t]) ELSE {}

\* enqueueRequestFront puts the request ahead of what is queued at its node.
FrontJumpsAhead ==
    \A r \in inflight, m \in MaxQueriersChoices :
        enqueueRequestFront(r, m) => QueueOf(root', r) = <<r>> \o QueueOf(root, r)

\* Over a tenant's whole subtree, a dequeued request that was not put back
\* at the front is older than every such request still pending (request IDs
\* are given in the order of enqueueRequestBack).
DequeueTakesOldestOfSubtree ==
    \A q \in Queriers, last \in Positions :
        (/\ dequeueRequestForQuerier(last, q)
         /\ ret'.request # NoRequest
         /\ ret'.request.id \notin fronted)
        => \A r \in TenantItems(ret'.request.tenantID) :
               r.id \notin fronted => r.id >= ret'.request.id

\* dequeueRequestForQuerier takes the head of the queue it serves.
DequeueTakesHead ==
    \A q \in Queriers, last \in Positions :
        (/\ ret'.request # NoRequest
         /\ currentQuerier' = q
         /\ dequeueRequestForQuerier(last, q))
        => /\ QueueOf(root, ret'.request) # <<>>
           /\ ret'.request = Head(QueueOf(root, ret'.request))
           /\ QueueOf(root', ret'.request) = Tail(QueueOf(root, ret'.request))

\* An accepted enqueueRequestBack appends to the queue of the request's path.
BackAppends ==
    \A t \in Tenants, dims \in Dimensions, m \in MaxQueriersChoices :
        LET request == [tenantID |-> t, id |-> nextID, dims |-> dims]
        IN (root' # root /\ ret'.err = ErrNone /\ enqueueRequestBack(request, m))
           => QueueOf(root', request) = Append(QueueOf(root, request), request)

\* C9 as claimed: over a tenant's whole subtree, the requests enqueued at the
\* back are dequeued in the order they were enqueued, and a request put back
\* with enqueueRequestFront goes ahead of what is pending at its node.
C9_SubtreeFIFO == [][DequeueTakesOldestOfSubtree /\ FrontJumpsAhead]_vars

\* C9 as amended: first-in-first-out holds for each queue of the tenant's
\* subtree, not across them: enqueueRequestBack appends to the queue of the
\* request's path, dequeueRequestForQuerier takes the head of the queue it
\* serves, and enqueueRequestFront puts the request at the head of its queue.
C9_NodeFIFO == [][DequeueTakesHead /\ BackAppends /\ FrontJumpsAhead]_vars

\* C9's case: with queue dimensions, a request put back by
\* enqueueRequestFront heads a sub-queue of its tenant ahead of a request
\* that was pending there.
C9_Witness ==
    /\ additionalQueueDimensionsEnabled
    /\ ret.err = ErrNone
    /\ \E t \in Tenants :
          \E r \in TenantItems(t) :
              /\ r.id \in fronted
              /\ r.dims # <<>>
              /\ Len(QueueOf(root, r)) >= 2
              /\ Head(QueueOf(root, r)) = r
              /\ QueueOf(root, r)[2].id \notin fronted

\* C10 as claimed: every tenant is eligible for every querier and each
\* querier passes the position its own previous call returned; then no
\* tenant is served twice while another tenant, pending since the first of
\* the two services, has not been served in between.
C10_FairAcrossQueriers ==
    [][\A q \in Queriers :
          (/\ dequeueRequestForQuerier(lastTenantIndexOf[q], q)
           /\ ret'.request # NoRequest
           /\ ret'.request.tenantID = lastServed)
          => waiting = {}]_vars

\* C10 as amended: the rotation continues across queriers when the caller
\* passes the position the most recent dequeueRequestForQuerier of any
\* querier returned, which is the stored shared position; a call with
\* that position never serves the tenant served last while another tenant is
\* waiting.
C10_FairWhenSharedPositionPassed ==
    [][\A q \in Queriers :
          (/\ dequeueRequestForQuerier(lastTenantIndexOf[q], q)
           /\ lastTenantIndexOf[q] = sharedQueuePosition
           /\ ret'.request # NoRequest
           /\ ret'.request.tenantID = lastServed)
          => waiting = {}]_vars

\* C10's case: a querier was served a tenant while the tenant served before
\* it still has requests pending, and the other querier holds the position
\* that call returned.
C10_Witness ==
    /\ ret.request # NoRequest
    /\ lastServed = ret.request.tenantID
    /\ waiting # {}
    /\ \E q \in Queriers :
          /\ q # currentQuerier
          /\ ~IsShutDown(q)
          /\ lastTenantIndexOf[q] = sharedQueuePosition
          /\ lastTenantIndexOf[q] # localQueueIndex

\* ------------------------------------------------------------------------
\* The callers of the LazyBinaryReader and its specification
\* ------------------------------------------------------------------------

otherThanReader == <<brokerSide, treeVars>>

\* The selects of getOrLoadReader a caller can stand at.
AtGetReader == {"getReader", "getReaderAgain"}
AtResponse == {"response", "responseAgain"}

\* A Reader function is called: getOrLoadReader starts with getReader.
CallReader ==
    \E c \in Callers :
        /\ callers[c].at = "idle"
        /\ callers' = [callers EXCEPT ![c].at = "getReader",
                                      ![c].reloadFrom =
                                          IF IsUnloadedByClose THEN Len(readers) ELSE 0]
        /\ UNCHANGED <<loop, readers, usedAt, lazyNow, cancels, lazyRet>>
        /\ UNCHANGED otherThanReader

\* The context of a call in progress is cancelled.
CtxCancel ==
    \E c \in Callers :
        /\ callers[c].at \in AtGetReader \cup AtResponse \cup {"triggerLoad", "waitLoaded"}
        /\ ~callers[c].ctxDone
        /\ cancels < MaxCancels
        /\ callers' = [callers EXCEPT ![c].ctxDone = TRUE]
        /\ cancels' = cancels + 1
        /\ UNCHANGED <<loop, readers, usedAt, lazyNow, lazyRet>>
        /\ UNCHANGED otherThanReader

\* getReader: the request is taken by the control loop.
GetReader ==
    \E c \in Callers :
        /\ callers[c].at \in AtGetReader
        /\ controlLoopReaderRequest(c)
        /\ callers' = [callers EXCEPT ![c].at =
                          IF @ = "getReader" THEN "response" ELSE "responseAgain"]
        /\ UNCHANGED <<lazyNow, cancels, lazyRet>>
        /\ UNCHANGED otherThanReader

\* getOrLoadReader once getReader has returned loadedR: before the load a
\* reader is used and anything else triggers the load; after the load the
\* reader, or the error of the load, or errUnloadedWhileLoading is returned.
getOrLoadReader(c, loadedR) ==
    IF loadedR.reader # NoReader
    THEN /\ callers' = [callers EXCEPT ![c].at = "using", ![c].reader = loadedR.reader]
         /\ UNCHANGED lazyRet
    ELSE IF callers[c].at \in {"getReader", "response"}
         THEN /\ callers' = [callers EXCEPT ![c].at = "triggerLoad"]
              /\ UNCHANGED lazyRet
         ELSE /\ callers' = [callers EXCEPT ![c] = IdleCaller]
              /\ lazyRet' = CallReturn("Reader", IF loadedR.err = ErrNone
                                                 THEN errUnloadedWhileLoading
                                                 ELSE loadedR.err)

\* getReader, the context done before the request is taken.
GetReaderCtxDone ==
    \E c \in Callers :
        /\ callers[c].at \in AtGetReader
        /\ callers[c].ctxDone
        /\ getOrLoadReader(c, loadedReader(NoReader, errContext))
        /\ UNCHANGED <<loop, readers, usedAt, lazyNow, cancels>>
        /\ UNCHANGED otherThanReader

\* getReader: the response of the control loop is received.
ReceiveResponse ==
    \E c \in Callers :
        /\ callers[c].at \in AtResponse
        /\ loop.at = "respond"
        /\ loop.peer = c
        /\ loop' = [loop EXCEPT !.at = "select", !.peer = NoCaller]
        /\ getOrLoadReader(c, loop.loaded)
        /\ UNCHANGED <<readers, usedAt, lazyNow, cancels>>
        /\ UNCHANGED otherThanReader

\* getReader, the context done before the response: waitAndCloseReader is
\* started to take it.
ResponseCtxDone ==
    \E c \in Callers :
        /\ callers[c].at \in AtResponse
        /\ callers[c].ctxDone
        /\ loop.at = "respond"
        /\ loop.peer = c
        /\ loop' = [loop EXCEPT !.peer = waitAndCloseReader]
        /\ getOrLoadReader(c, loadedReader(NoReader, errContext))
        /\ UNCHANGED <<readers, usedAt, lazyNow, cancels>>
        /\ UNCHANGED otherThanReader

\* waitAndCloseReader taking the response and signalling nothing.
WaitAndCloseReaderForgets ==
    /\ loop.at = "respond"
    /\ loop.peer = waitAndCloseReader
    /\ loop' = [loop EXCEPT !.at = "select", !.peer = NoCaller]
    /\ UNCHANGED <<readers, usedAt, lazyNow, callers, cancels, lazyRet>>
    /\ UNCHANGED otherThanReader

\* waitAndCloseReader takes the response: a reader in it has to be signalled.
WaitAndCloseReaderReceive ==
    /\ loop.at = "respond"
    /\ loop.peer = waitAndCloseReader
    /\ loop' = [loop EXCEPT !.at = "select", !.peer = NoCaller]
    /\ readers' = IF loop.loaded.reader # NoReader
                  THEN [readers EXCEPT ![loop.loaded.reader].orphans = @ + 1]
                  ELSE readers
    /\ UNCHANGED <<usedAt, lazyNow, callers, cancels, lazyRet>>
    /\ UNCHANGED otherThanReader

\* waitAndCloseReader: resp.inUse.Done().
WaitAndCloseReaderDone ==
    \E g \in DOMAIN readers :
        /\ readers[g].orphans > 0
        /\ readers' = [readers EXCEPT ![g].orphans = @ - 1, ![g].inUse = @ - 1]
        /\ UNCHANGED <<loop, usedAt, lazyNow, callers, cancels, lazyRet>>
        /\ UNCHANGED otherThanReader

\* triggerLoadReader: the load request is taken by the control loop, and the
\* caller goes on to waitLoadedReader, where it stands until the done channel
\* is closed; with nothing to load it is closed already.
TriggerLoadReader ==
    \E c \in Callers :
        /\ callers[c].at = "triggerLoad"
        /\ controlLoopLoadRequest(c)
        /\ callers' = [callers EXCEPT ![c].at =
                          IF MustLoad(loop.loaded) THEN "waitLoaded" ELSE "getReaderAgain"]
        /\ UNCHANGED <<readers, usedAt, lazyNow, cancels, lazyRet>>
        /\ UNCHANGED otherThanReader

\* loadReader returns in the control loop, whether or not the caller that
\* asked for the load is still waiting: a caller in waitLoadedReader finds
\* the done channel closed and goes on to getReader.
LoadReader ==
    \E outcome \in LoadOutcomes :
        /\ controlLoopLoadReader(outcome)
        /\ callers' = [c \in Callers |->
                          IF c = loop.peer /\ callers[c].at = "waitLoaded"
                          THEN [callers[c] EXCEPT !.at = "getReaderAgain"]
                          ELSE callers[c]]
        /\ UNCHANGED <<lazyNow, cancels, lazyRet>>
        /\ UNCHANGED otherThanReader

\* waitLoadedReader, the context done while the load is in progress: the
\* caller leaves with the context's error and the control loop loads on.
WaitLoadedCtxDone ==
    \E c \in Callers :
        /\ callers[c].at = "waitLoaded"
        /\ callers[c].ctxDone
        /\ callers' = [callers EXCEPT ![c] = IdleCaller]
        /\ lazyRet' = CallReturn("Reader", errContext)
        /\ UNCHANGED <<loop, readers, usedAt, lazyNow, cancels>>
        /\ UNCHANGED otherThanReader

\* triggerLoadReader, the context done: the promise is nil, and
\* waitLoadedReader returns the context's error.
TriggerLoadCtxDone ==
    \E c \in Callers :
        /\ callers[c].at = "triggerLoad"
        /\ callers[c].ctxDone
        /\ callers' = [callers EXCEPT ![c] = IdleCaller]
        /\ lazyRet' = CallReturn("Reader", errContext)
        /\ UNCHANGED <<loop, readers, usedAt, lazyNow, cancels>>
        /\ UNCHANGED otherThanReader

\* A Reader function returns: the deferred wg.Done().
ReaderReturns ==
    \E c \in Callers :
        /\ callers[c].at = "using"
        /\ readers' = [readers EXCEPT ![callers[c].reader].inUse = @ - 1]
        /\ callers' = [callers EXCEPT ![c] = IdleCaller]
        /\ lazyRet' = CallReturn("Reader", ErrNone)
        /\ UNCHANGED <<loop, usedAt, lazyNow, cancels>>
        /\ UNCHANGED otherThanReader

SymbolsReadersOpen(g) == readers[g].symbols

\* SymbolsReader returns a lazySymbolsReader, which keeps the WaitGroup.
SymbolsReaderReturns ==
    \E c \in Callers :
        /\ callers[c].at = "using"
        /\ \A g \in DOMAIN readers : SymbolsReadersOpen(g) < MaxSymbolsReaders
        /\ readers' = [readers EXCEPT ![callers[c].reader].symbols = @ + 1]
        /\ callers' = [callers EXCEPT ![c] = IdleCaller]
        /\ lazyRet' = CallReturn("SymbolsReader", ErrNone)
        /\ UNCHANGED <<loop, usedAt, lazyNow, cancels>>
        /\ UNCHANGED otherThanReader

\* lazySymbolsReader.Close that does not signal the WaitGroup.
SymbolsReaderCloseWithoutDone ==
    \E g \in DOMAIN readers :
        /\ readers[g].symbols > 0
        /\ readers' = [readers EXCEPT ![g].symbols = @ - 1]
        /\ UNCHANGED <<loop, usedAt, lazyNow, callers, cancels, lazyRet>>
        /\ UNCHANGED otherThanReader

\* lazySymbolsReader.Close: once.Do(wg.Done).
SymbolsReaderClose ==
    \E g \in DOMAIN readers :
        /\ readers[g].symbols > 0
        /\ readers' = [readers EXCEPT ![g].symbols = @ - 1, ![g].inUse = @ - 1]
        /\ UNCHANGED <<loop, usedAt, lazyNow, callers, cancels, lazyRet>>
        /\ UNCHANGED otherThanReader

\* unloadIfIdleSince(ts), and Close, which is unloadIfIdleSince(0): the
\* request is taken by the control loop, which answers it or goes on to wait.
unloadIfIdleSince(c, ts) ==
    /\ callers[c].at = "idle"
    /\ loop.at = "select"
    /\ IF UnloadAnswered(ts)
       THEN /\ lazyRet' = CallReturn("unloadIfIdleSince", UnloadAnswer(ts))
            /\ UNCHANGED <<callers, loop>>
       ELSE /\ callers' = [callers EXCEPT ![c].at = "unload"]
            /\ loop' = [loop EXCEPT !.at = "wait", !.peer = c, !.idleSinceNanos = ts]
            /\ UNCHANGED lazyRet
    /\ UNCHANGED <<readers, usedAt>>

UnloadIfIdleSince ==
    \E c \in Callers, ts \in 0 .. MaxClock :
        /\ unloadIfIdleSince(c, ts)
        /\ UNCHANGED <<lazyNow, cancels>>
        /\ UNCHANGED otherThanReader

\* The control loop calls Close on the reader and answers the unload request.
CloseOutcomes == {ErrNone, errClose}

ControlLoopUnload ==
    \E closeErr \in CloseOutcomes :
        /\ controlLoopUnload(closeErr)
        /\ callers' = [callers EXCEPT ![loop.peer] = IdleCaller]
        /\ lazyRet' = CallReturn("unloadIfIdleSince", closeErr)
        /\ UNCHANGED <<lazyNow, cancels>>
        /\ UNCHANGED otherThanReader

\* Time passes.
TickLazy ==
    /\ lazyNow < MaxClock
    /\ lazyNow' = lazyNow + 1
    /\ UNCHANGED <<loop, readers, usedAt, callers, cancels, lazyRet>>
    /\ UNCHANGED otherThanReader

NextLazy ==
    \/ CallReader
    \/ CtxCancel
    \/ GetReader
    \/ GetReaderCtxDone
    \/ ReceiveResponse
    \/ ResponseCtxDone
    \/ WaitAndCloseReaderReceive
    \/ WaitAndCloseReaderDone
    \/ TriggerLoadReader
    \/ LoadReader
    \/ WaitLoadedCtxDone
    \/ TriggerLoadCtxDone
    \/ ReaderReturns
    \/ SymbolsReaderReturns
    \/ SymbolsReaderClose
    \/ UnloadIfIdleSince
    \/ ControlLoopUnload
    \/ TickLazy

\* The broker and the tree stay as they were constructed.
InitLazy ==
    /\ Init
    /\ ~additionalQueueDimensionsEnabled
    /\ maxTenantQueueSize = 1

SpecLazy == InitLazy /\ [][NextLazy]_vars

\* The goroutines are scheduled: a Reader function that holds the reader
\* returns and signals Done, an open symbols reader is closed, a
\* waitAndCloseReader goroutine takes the response and signals, a caller
\* waiting for the response takes it, the gate and the factory let loadReader
\* return, and the control loop goes on once the WaitGroup lets it.
FairLazy ==
    /\ WF_vars(LoadReader)
    /\ WF_vars(ReaderReturns)
    /\ WF_vars(SymbolsReaderClose)
    /\ WF_vars(WaitAndCloseReaderReceive)
    /\ WF_vars(WaitAndCloseReaderDone)
    /\ WF_vars(ReceiveResponse)
    /\ WF_vars(ControlLoopUnload)

SpecLazyFair == InitLazy /\ [][NextLazy]_vars /\ FairLazy

\* ------------------------------------------------------------------------
\* The claims on the tree under the skip-over algorithm
\* ------------------------------------------------------------------------

TreeChildren == DOMAIN tree.queueMap
ChildQueue(n, name) == n.queueMap[name].localQueue

\* The place in nodeOrder (from 1) of the child the rotation comes to next:
\* the first after the local queue, the one at the cursor otherwise.
NextInOrder(q) ==
    IF q.currentNodeOrderIndex = localQueueIndex THEN 1 ELSE q.currentNodeOrderIndex + 1

\* The cursor after a visit to place i of an order of length len.
CursorAfter(i, len) == IF i >= len THEN localQueueIndex ELSE i

\* An enqueue to a child that exists leaves the rotation as it is.
EnqueueKeepsRotation ==
    \A name \in ChildNames :
        name \in TreeChildren /\ TreeEnqueueOf(MaxTreeItems, {name}) => qcud' = qcud

\* Before any dequeue moved the cursor, a new child is appended: the order
\* is the order of the first enqueues.
FirstEnqueueAppends ==
    \A name \in ChildNames :
        /\ name \notin TreeChildren
        /\ qcud.currentNodeOrderIndex = localQueueIndex
        /\ TreeEnqueueOf(MaxTreeItems, {name})
        => qcud'.nodeOrder = Append(qcud.nodeOrder, name)

\* Without a utilization check, a dequeue serves the head of the next child
\* in the order, one item, and the cursor moves on by one child; the order
\* changes only when the child served is emptied.
DequeueVisitsInOrder ==
    /\ ~TriggerUtilizationCheck(qcurc)
    /\ qcud.nodeOrder # <<>>
    /\ TreeDequeue
    => LET i == NextInOrder(qcud)
           name == qcud.nodeOrder[i]
       IN /\ treeRet'.path = <<name>>
          /\ treeRet'.v = Head(ChildQueue(tree, name))
          /\ ItemCount(tree') = ItemCount(tree) - 1
          /\ \A c \in TreeChildren \ {name} : ChildQueue(tree', c) = ChildQueue(tree, c)
          /\ Len(ChildQueue(tree, name)) > 1
             => /\ qcud'.nodeOrder = qcud.nodeOrder
                /\ qcud'.currentNodeOrderIndex = CursorAfter(i, Len(qcud.nodeOrder))

\* C11: when no utilization check fires, the children are visited in the
\* order of their first enqueues, one item a visit, as long as none is
\* emptied, and an enqueue to a child that exists does not change the order.
C11_RotationInFirstSeenOrder ==
    [][EnqueueKeepsRotation /\ FirstEnqueueAppends /\ DequeueVisitsInOrder]_vars

\* Two children that were enqueued to twice each have both been visited
\* once, the second last, and the rotation is back at the local queue.
C11_Witness ==
    /\ ~TriggerUtilizationCheck(qcurc)
    /\ Len(qcud.nodeOrder) = 2
    /\ \A c \in TreeChildren : ChildQueue(tree, c) # <<>>
    /\ treeRet.path = <<qcud.nodeOrder[2]>>
    /\ treeRet.v = 2
    /\ qcud.currentNodeOrderIndex = localQueueIndex

\* The place (from 1) of name in order.
PlaceOf(order, name) == CHOOSE i \in 1 .. Len(order) : order[i] = name

\* The children the rotation of q comes to before it comes to name.
Ahead(q, name) ==
    IF q.currentNodeOrderIndex = localQueueIndex
    THEN PlaceOf(q.nodeOrder, name) - 1
    ELSE (PlaceOf(q.nodeOrder, name) - 1 - q.currentNodeOrderIndex) % Len(q.nodeOrder)

\* The utilization check passes over the child.
SkippedOver(name) ==
    /\ TriggerUtilizationCheck(qcurc)
    /\ ExceedsThresholdForComponentName(qcurc, name).exceeds

\* A child that joins the tree goes behind every child of the rotation, and
\* their turns stay as they were.
AdmittedLast ==
    \A name \in ChildNames :
        name \notin TreeChildren /\ TreeEnqueueOf(MaxTreeItems, {name})
        => /\ name \in DOMAIN tree'.queueMap
           /\ Ahead(qcud', name) = Cardinality(TreeChildren)
           /\ \A c \in TreeChildren : Ahead(qcud', c) = Ahead(qcud, c)

\* A dequeue serves no child that others are ahead of.
ServedInTurn ==
    \A name \in ChildNames :
        TreeDequeue /\ treeRet'.v # NoItem /\ treeRet'.path = <<name>>
        => Ahead(qcud, name) = 0

\* A dequeue serves no child that others are ahead of, but for the children
\* the utilization check passes over.
ServedInTurnButForSkips ==
    \A name \in ChildNames :
        TreeDequeue /\ treeRet'.v # NoItem /\ treeRet'.path = <<name>>
        => \A c \in TreeChildren : Ahead(qcud, c) < Ahead(qcud, name) => SkippedOver(c)

\* A dequeue that returns brings every child it does not serve one turn
\* closer, with the items it holds.
TurnComes ==
    TreeDequeue /\ TreeChildren # {} /\ ~treeRet'.panicked
    => /\ treeRet'.v # NoItem
       /\ \A c \in TreeChildren :
              \/ treeRet'.path = <<c>>
              \/ /\ c \in DOMAIN tree'.queueMap
                 /\ ChildQueue(tree', c) = ChildQueue(tree, c)
                 /\ Ahead(qcud', c) = Ahead(qcud, c) - 1

TurnComesWithoutCheck == ~TriggerUtilizationCheck(qcurc) => TurnComes

\* C12 as claimed: a child that comes back after it was pruned goes behind
\* the children waiting in the rotation, is not served while one of them is
\* ahead of it, and each dequeue brings it one turn closer until it is
\* served.
C12_ReadmittedWaitsItsTurn == [][AdmittedLast /\ ServedInTurn /\ TurnComes]_vars

\* C12 as the code has it: the child that comes back goes behind the
\* children waiting in the rotation and is served before one of them only
\* when the utilization check passes over that one; with no utilization
\* check triggered, each dequeue brings it one turn closer until it is
\* served.
C12_ReadmittedWaitsButForSkips ==
    [][AdmittedLast /\ ServedInTurnButForSkips /\ TurnComesWithoutCheck]_vars

\* The first child was served its only item and pruned, and came back after
\* a second child had joined: it is behind the second in the rotation.
C12_Witness ==
    /\ ~TriggerUtilizationCheck(qcurc)
    /\ nextObj = 4
    /\ treeRet.v = 1
    /\ treeRet.path = <<ingesterQueueDimension>>
    /\ qcud.nodeOrder = <<"child-1", ingesterQueueDimension>>
    /\ ChildQueue(tree, "child-1") = <<2>>
    /\ ChildQueue(tree, ingesterQueueDimension) = <<3>>

\* C13: a Tree.Dequeue on a tree with no item returns the empty path and the
\* nil item, and a dequeueRequestForQuerier of a querier that is registered
\* and not shutting down, on a broker with no request, returns a nil request
\* and a nil error; the tree and its rotation order are then as they were.
TreeNothingToDequeue ==
    ItemCount(tree) = 0 /\ TreeDequeue
    => /\ treeRet' = [path |-> <<>>, v |-> NoItem, panicked |-> FALSE]
       /\ tree' = tree
       /\ qcud' = qcud

BrokerNothingToDequeue ==
    \A q \in Queriers, last \in Positions :
        /\ ItemCount(root) = 0
        /\ ~QuerierIsRejected(q)
        /\ dequeueRequestForQuerier(last, q)
        => /\ ret'.request = NoRequest
           /\ ret'.err = ErrNone
           /\ root' = root

C13_NothingToDequeue == [][TreeNothingToDequeue /\ BrokerNothingToDequeue]_vars

\* Both have happened: the tree was emptied by its dequeues and the next one
\* found nothing, and a registered querier found nothing on the broker.
C13_Witness ==
    /\ nextObj > 1
    /\ treeRet = [path |-> <<>>, v |-> NoItem, panicked |-> FALSE]
    /\ ItemCount(tree) = 0
    /\ currentQuerier = "q1"
    /\ ret.request = NoRequest
    /\ ret.err = ErrNone
    /\ ret.position = sharedQueuePosition
    /\ ItemCount(root) = 0

\* The children a dequeue passes over: those from place i of the order on
\* that the utilization check skips, up to the first it does not skip.
RECURSIVE SkipRun(_, _)
SkipRun(order, i) ==
    IF i > Len(order) \/ ~SkippedOver(order[i])
    THEN <<>>
    ELSE <<order[i]>> \o SkipRun(order, i + 1)

\* A dequeue skips the child the rotation has come to, and puts its name on
\* the skipped list, if and only if the check is triggered and the child's
\* component is over its threshold; so on for the children that follow; the
\* first child that is not skipped is the one selected.
SkippedIffOverThreshold ==
    TreeDequeue /\ qcud.nodeOrder # <<>>
    => LET i == NextInOrder(qcud)
           run == SkipRun(qcud.nodeOrder, i)
       IN /\ qcud'.nodesSkippedOrder = qcud.nodesSkippedOrder \o run
          /\ i + Len(run) <= Len(qcud.nodeOrder)
             => treeRet'.path = <<qcud.nodeOrder[i + Len(run)]>>

\* With waitingWorkers > queueLen a dequeue skips nothing.
NoSkipWithoutTrigger ==
    TreeDequeue /\ qcurc.waitingWorkers > qcurc.queueLen
    => qcud'.nodesSkippedOrder = qcud.nodesSkippedOrder

\* C14: the child at the cursor is skipped, its name appended to the skipped
\* list, if and only if the utilization check is triggered and the child's
\* component exceeds its threshold; nothing is skipped when
\* waitingWorkers > queueLen, whatever is in flight.
C14_SkippedIffTriggeredAndOver == [][SkippedIffOverThreshold /\ NoSkipWithoutTrigger]_vars

\* The ingester child, over its threshold with the check triggered, was
\* skipped and the store-gateway child behind it, under its threshold, was
\* served.
C14_Witness ==
    /\ SkippedOver(ingesterQueueDimension)
    /\ ~SkippedOver(storeGatewayQueueDimension)
    /\ qcud.nodesSkippedOrder = <<ingesterQueueDimension>>
    /\ ingesterQueueDimension \in TreeChildren
    /\ treeRet.path = <<storeGatewayQueueDimension>>
    /\ treeRet.v = 2

\* The component kinds a name matches, and the requests in flight for a kind.
KindsOf(name) ==
    {k \in {"ingester", "store-gateway"} :
        \/ k = "ingester" /\ queryComponentFlags(name).isIngester
        \/ k = "store-gateway" /\ queryComponentFlags(name).isStoreGateway}

InflightOf(u, k) ==
    IF k = "ingester" THEN u.ingesterInflightRequests ELSE u.storeGatewayInflightRequests

\* ceil(max(targetReservedCapacity * connectedWorkers, 1)) of the decimal
\* capacity: the least whole number of connections that is at least one and
\* at least the reserved share, the capacity being held in hundredths; 0 for
\* a capacity of 0.
MinReserved(u) ==
    IF u.targetReservedCapacity > 0
    THEN CHOOSE n \in 1 .. u.connectedWorkers + 1 :
             /\ 100 * n >= u.targetReservedCapacity * u.connectedWorkers
             /\ n > 1 => 100 * (n - 1) < u.targetReservedCapacity * u.connectedWorkers
    ELSE 0

\* C15: ExceedsThresholdForComponentName is false for connectedWorkers <= 1;
\* otherwise it is true for a name of a component kind exactly when
\* connectedWorkers - inflight(kind) <= minReserved, and false for a name of
\* no kind.
C15_ExceedsThreshold ==
    threshold.name # ""
    => /\ qcurc.connectedWorkers <= 1 => ~threshold.exceeds
       /\ qcurc.connectedWorkers > 1
          => (threshold.exceeds
              <=> \E k \in KindsOf(threshold.name) :
                      qcurc.connectedWorkers - InflightOf(qcurc, k) <= MinReserved(qcurc))
       /\ KindsOf(threshold.name) = {} => ~threshold.exceeds

\* C16: with targetReservedCapacity = 0 ExceedsThresholdForComponentName is
\* false for every child of the tree, whatever the workers connected,
\* waiting and in flight, and no name is ever on the skipped list.
C16_ZeroCapacityDisablesSkipOver ==
    qcurc.targetReservedCapacity = 0
    => /\ \A name \in TreeChildren : ~ExceedsThresholdForComponentName(qcurc, name).exceeds
       /\ qcud.nodesSkippedOrder = <<>>

\* C17: when every child holds items and every child's component is over
\* its threshold with the utilization check triggered, one Tree.Dequeue
\* still returns an item, that of the child skipped first, wherever the
\* cursor is.
C17_StarvationAvoidance ==
    [][/\ TreeDequeue
       /\ TreeChildren # {}
       /\ \A c \in TreeChildren : SkippedOver(c)
       => /\ ~treeRet'.panicked
          /\ treeRet'.path = <<qcud.nodeOrder[NextInOrder(qcud)]>>
          /\ treeRet'.v = Head(ChildQueue(tree, qcud.nodeOrder[NextInOrder(qcud)]))]_vars

\* C18: when a child with items is not over its threshold, a Tree.Dequeue
\* returns an item of a child that is not over its threshold: it neither
\* comes back empty nor serves a child it skipped.
C18_FallbackOnlyWithoutOtherWork ==
    [][/\ TreeDequeue
       /\ \E c \in TreeChildren : ~SkippedOver(c)
       => /\ ~treeRet'.panicked
          /\ treeRet'.v # NoItem
          /\ \E c \in TreeChildren : treeRet'.path = <<c>> /\ ~SkippedOver(c)]_vars

NamesOf(order) == {order[i] : i \in 1 .. Len(order)}

\* C19: after every dequeue that returned, no child of the tree is left with
\* an empty local queue and no children, and nodeOrder holds the names of the
\* root's children, each once.
C19_PrunedAndOrderExact ==
    /\ \A c \in TreeChildren : ~IsEmpty(tree.queueMap[c])
    /\ NamesOf(qcud.nodeOrder) = TreeChildren
    /\ Len(qcud.nodeOrder) = Cardinality(TreeChildren)

\* A dequeue took the last item of a child, which is gone from the tree and
\* from the order, and two children remain.
C19_Witness ==
    /\ treeRet.v # NoItem
    /\ \E c \in ChildNames : treeRet.path = <<c>> /\ c \notin TreeChildren
    /\ Cardinality(TreeChildren) = 2
    /\ NamesOf(qcud.nodeOrder) = TreeChildren

\* ------------------------------------------------------------------------
\* The claims on the shuffle shard and the forget delay
\* ------------------------------------------------------------------------

\* The subset a tenant's registration, width and the pool determine.
ShardOf(t) ==
    ShuffleShard(t, tenantsByID[t].maxQueriers, QuerierPool(queriersByID))

ShardIsDetermined ==
    \A t \in DOMAIN tenantsByID : TenantQuerierSet(t) = ShardOf(t)

ShardChangesOnlyWithInputs ==
    \A t \in DOMAIN tenantsByID \cap DOMAIN tenantsByID' :
        (/\ QuerierPool(queriersByID)' = QuerierPool(queriersByID)
         /\ tenantsByID'[t].maxQueriers = tenantsByID[t].maxQueriers)
        => TenantQuerierSet(t)' = TenantQuerierSet(t)

ForgetTime(q) == queriersByID[q].disconnectedAt + querierForgetDelay

LastConnectionStampsAndKeeps ==
    \A q \in DOMAIN queriersByID :
        (removeQuerierConnection(q, now) /\ queriersByID[q].connections = 1)
        => /\ q \in DOMAIN queriersByID'
           /\ queriersByID'[q].connections = 0
           /\ queriersByID'[q].disconnectedAt = now
           /\ ~ret'.resharded

PurgedBy(q) == q \in DOMAIN queriersByID /\ q \notin DOMAIN queriersByID'

SweepPurgesAfterDelay ==
    forgetDisconnectedQueriers(now)
    => /\ \A q \in DOMAIN queriersByID :
             PurgedBy(q) <=> (queriersByID[q].connections = 0 /\ now >= ForgetTime(q))
       /\ ret'.resharded <=> \E q \in Queriers : PurgedBy(q)

OnlySweepPurges ==
    \A q \in Queriers :
        PurgedBy(q) => forgetDisconnectedQueriers(now) /\ queriersByID[q].connections = 0

\* C22: a querier whose last connection is removed at time T stays in the
\* querier table with T stamped; forgetDisconnectedQueriers(now) purges exactly
\* the queriers without connections for which now >= T + forgetDelay, reports
\* a reshard exactly when it purged one, and nothing else purges a querier: one
\* that has a connection is never purged.
C22_ForgetDelay ==
    [][LastConnectionStampsAndKeeps /\ SweepPurgesAfterDelay /\ OnlySweepPurges]_vars

\* C22's case: the sweep at time 1 has purged the last querier of the table,
\* disconnected at time 0, and reported the reshard.
C22_Witness ==
    /\ now = querierForgetDelay
    /\ DOMAIN queriersByID = {}
    /\ ret = ReturnedResharded(TRUE)

\* ------------------------------------------------------------------------
\* The claims on the LazyBinaryReader
\* ------------------------------------------------------------------------

\* The callers that hold reader g between getOrLoadReader and wg.Done().
UsersOf(g) == {c \in Callers : callers[c].at = "using" /\ callers[c].reader = g}

\* Everyone who has still to signal the WaitGroup of reader g.
HoldersOf(g) == Cardinality(UsersOf(g)) + readers[g].orphans + readers[g].symbols

\* Close is called on reader g in this step.
CloseCalled(g) == \E closeErr \in CloseOutcomes :
                      controlLoopUnload(closeErr) /\ loop.loaded.reader = g

\* Reader g is handed to caller c in this step.
HandedTo(c, g) ==
    /\ callers[c].at # "using"
    /\ callers'[c].at = "using"
    /\ callers'[c].reader = g

ClosedOnlyWhenUnused ==
    \A g \in DOMAIN readers :
        CloseCalled(g) => readers[g].inUse = 0 /\ HoldersOf(g) = 0

HandedOnlyBeforeClose ==
    \A c \in Callers, g \in DOMAIN readers :
        HandedTo(c, g) => readers[g].close = "open"

\* C23: Close is called on the underlying reader only when its in-use count
\* is zero and nobody holds it, and a reader is handed to a caller only as
\* long as Close has not been called on it.
C23_NeverClosedInUse ==
    [][ClosedOnlyWhenUnused /\ HandedOnlyBeforeClose]_vars

\* The positions of a caller inside getOrLoadReader.
InGetOrLoadReader == AtGetReader \cup AtResponse \cup {"triggerLoad", "waitLoaded"}

\* Caller c leaves getOrLoadReader in this step, with a reader or an error.
GetOrLoadReaderReturns(c) ==
    /\ callers[c].at \in InGetOrLoadReader
    /\ callers'[c].at \notin InGetOrLoadReader

\* Caller c comes out of getOrLoadReader with a reader loaded after the call.
ServedByReload(c) ==
    /\ callers'[c].at = "using"
    /\ callers'[c].reader > callers[c].reloadFrom

\* Close asks for the unload whatever the last use was.
CloseSkipsIdleCheck ==
    \A c \in Callers :
        (unloadIfIdleSince(c, 0) /\ loop.loaded.reader # NoReader)
        => loop'.at = "wait" /\ loop'.peer = c

\* A load request in the unloaded state goes to loadReader again, and when
\* loadReader returns the factory's next reader is loaded, or the error of the
\* attempt is kept.
LoadRequestReloads ==
    /\ \A c \in Callers :
          (/\ callers[c].at = "triggerLoad"
           /\ callers'[c].at \in {"waitLoaded", "getReaderAgain"}
           /\ IsUnloadedByClose)
          => loop'.at = "loading" /\ loop'.peer = c /\ callers'[c].at = "waitLoaded"
    /\ loop.at = "loading" /\ loop'.at # "loading"
       => \/ /\ loop'.loaded.reader = Len(readers) + 1
             /\ Len(readers') = Len(readers) + 1
          \/ loop'.loaded.err \in {errGate, errFactory}

\* A call that began after the unload, in a step that ends its
\* getOrLoadReader while its context is not done and no load has failed.
ReturnsAfterUnload(c) ==
    /\ callers[c].reloadFrom > 0
    /\ ~callers[c].ctxDone
    /\ loop.loaded.err = ErrNone
    /\ GetOrLoadReaderReturns(c)

\* C24 as claimed: after Close has unloaded the index-header, a call of a
\* Reader function whose context is not done and whose load does not fail is
\* served by a reader that the factory returned after that Close.
C24_ReloadedAfterClose ==
    [][\A c \in Callers : ReturnsAfterUnload(c) => ServedByReload(c)]_vars

\* The reader the call's load request brought in was unloaded again before
\* the call came to ask for it.
UnloadedWhileLoading(c) ==
    /\ lazyRet'.err = errUnloadedWhileLoading
    /\ \E g \in DOMAIN readers :
          g > callers[c].reloadFrom /\ readers[g].close = "closed"

\* C24: Close asks for the unload whatever the last use was; after it has
\* unloaded the index-header a load request goes to the factory again; and a
\* call of a Reader function begun after the unload, whose context is not
\* done and whose load does not fail, is served by a reader the factory
\* returned after that Close, unless that reader was unloaded in its turn
\* before the call could take it: the call then returns
\* errUnloadedWhileLoading.
C24_ReloadedUnlessUnloadedAgain ==
    [][/\ CloseSkipsIdleCheck
       /\ LoadRequestReloads
       /\ \A c \in Callers :
             ReturnsAfterUnload(c) => ServedByReload(c) \/ UnloadedWhileLoading(c)]_vars

\* C24's case: reader 1 was closed, and a call begun after that is served by
\* reader 2.
C24_Witness ==
    /\ Len(readers) = 2
    /\ readers[1].close = "closed"
    /\ \E c \in Callers :
          /\ callers[c].at = "using"
          /\ callers[c].reloadFrom = 1
          /\ callers[c].reader = 2

\* C25: unloadIfIdleSince(ts), for any ts, on a LazyBinaryReader that has no
\* reader loaded returns nil at once, calls Close on no reader, and leaves the
\* control loop's loaded, the readers and usedAt as they were: done again it
\* does the same.
C25_UnloadOfUnloadedIsNoOp ==
    [][\A c \in Callers, ts \in 0 .. MaxClock :
          (unloadIfIdleSince(c, ts) /\ loop.loaded.reader = NoReader)
          => /\ lazyRet' = CallReturn("unloadIfIdleSince", ErrNone)
             /\ callers'[c].at = "idle"
             /\ loop' = loop
             /\ readers' = readers
             /\ usedAt' = usedAt
             /\ LoadedLastUse' = 0]_vars

\* C25's case: no reader was ever loaded, the one attempt to load failed, and
\* an unloadIfIdleSince has returned nil.
C25_Witness ==
    /\ readers = <<>>
    /\ loop.loaded.err = errFactory
    /\ usedAt = 0
    /\ lazyRet = CallReturn("unloadIfIdleSince", ErrNone)

\* An unload request on a loaded reader that was used after ts is refused.
NotIdleIsRefused ==
    \A c \in Callers, ts \in 0 .. MaxClock :
        (/\ unloadIfIdleSince(c, ts)
         /\ loop.loaded.reader # NoReader
         /\ ts > 0
         /\ LoadedLastUse > ts)
        => /\ lazyRet' = CallReturn("unloadIfIdleSince", errNotIdle)
           /\ loop' = loop
           /\ readers' = readers
           /\ LoadedLastUse' = LoadedLastUse

\* An unload request on a loaded reader is gone on with exactly when ts is 0
\* or the reader is idle since ts.
IdleIsUnloaded ==
    \A c \in Callers, ts \in 0 .. MaxClock :
        (unloadIfIdleSince(c, ts) /\ loop.loaded.reader # NoReader)
        => ((ts = 0 \/ IsIdleSince(ts)) <=> (loop'.at = "wait" /\ loop'.peer = c))

\* The unload gone on with ends with nothing loaded and usedAt at 0.
UnloadEndsUnloaded ==
    (\E closeErr \in CloseOutcomes : controlLoopUnload(closeErr))
    => /\ loop.idleSinceNanos = 0 \/ IsIdleSince(loop.idleSinceNanos)
       /\ loop'.loaded = notLoaded
       /\ LoadedLastUse' = 0
       /\ lazyRet' = CallReturn("unloadIfIdleSince", ErrNone)

\* C26: on a loaded reader, unloadIfIdleSince(ts) with ts > 0 and a last use
\* later than ts returns errNotIdle and leaves the reader loaded and usedAt as
\* it was; with a last use at or before ts, or with ts = 0, the reader is
\* unloaded, LoadedLastUse becomes 0 and nil is returned.
C26_UnloadsExactlyWhenIdle ==
    [][NotIdleIsRefused /\ IdleIsUnloaded /\ UnloadEndsUnloaded]_vars

\* ------------------------------------------------------------------------
\* The claims on the skipped list
\* ------------------------------------------------------------------------

\* C30: between the calls of the tree, every name on nodesSkippedOrder is the
\* name of a child that is in nodeOrder and in the root's queueMap: a child
\* that dequeueUpdateState prunes is taken off the skipped list as well.
C30_SkippedNamesExist ==
    \A i \in 1 .. Len(qcud.nodesSkippedOrder) :
        /\ qcud.nodesSkippedOrder[i] \in NamesOf(qcud.nodeOrder)
        /\ qcud.nodesSkippedOrder[i] \in TreeChildren

\* ------------------------------------------------------------------------
\* The claims on the cursor, the frame and the conservation of items
\* ------------------------------------------------------------------------

\* The order without the element at place i (from 1).
WithoutPlace(order, i) == SubSeq(order, 1, i - 1) \o SubSeq(order, i + 1, Len(order))

\* An enqueue to a child the root does not have calls addChildNode.  With
\* the cursor at place i (from 0) the child's name is at place i afterwards,
\* the cursor is i + 1 and designates the child it designated, and the
\* other names keep their order.
AddedAtCursor ==
    \A name \in ChildNames :
        /\ name \notin TreeChildren
        /\ qcud.currentNodeOrderIndex # localQueueIndex
        /\ TreeEnqueueOf(MaxTreeItems, {name})
        => LET i == qcud.currentNodeOrderIndex
           IN /\ i < Len(qcud.nodeOrder)
              /\ qcud'.nodeOrder[i + 1] = name
              /\ qcud'.currentNodeOrderIndex = i + 1
              /\ qcud'.nodeOrder[qcud'.currentNodeOrderIndex + 1] = qcud.nodeOrder[i + 1]
              /\ WithoutPlace(qcud'.nodeOrder, i + 1) = qcud.nodeOrder
              /\ name \in DOMAIN tree'.queueMap

\* With the cursor at the local queue the name is appended and the cursor
\* stays.
AddedAtTail ==
    \A name \in ChildNames :
        /\ name \notin TreeChildren
        /\ qcud.currentNodeOrderIndex = localQueueIndex
        /\ TreeEnqueueOf(MaxTreeItems, {name})
        => /\ qcud'.nodeOrder = Append(qcud.nodeOrder, name)
           /\ qcud'.currentNodeOrderIndex = localQueueIndex
           /\ name \in DOMAIN tree'.queueMap

\* addChildNode leaves the count of nodes checked and the skipped list.
AddKeepsTheRest ==
    TreeEnqueue => /\ qcud'.nodesChecked = qcud.nodesChecked
                   /\ qcud'.nodesSkippedOrder = qcud.nodesSkippedOrder

\* C31: addChildNode does not change which child is served next: at cursor
\* i the new child is inserted at place i and the cursor becomes i + 1, on
\* the same child as before, the children keeping their relative order; at
\* the local-queue sentinel the child is appended and the cursor stays.
C31_AddChildKeepsNext ==
    [][AddedAtCursor /\ AddedAtTail /\ AddKeepsTheRest]_vars

\* A child was added while the cursor was on another child: it holds the
\* item just enqueued and nothing else, sits right before the cursor, and
\* the cursor is on a child that was there before.
C31_Witness ==
    /\ ~treeRet.panicked
    /\ qcud.currentNodeOrderIndex >= 1
    /\ qcud.currentNodeOrderIndex < Len(qcud.nodeOrder)
    /\ qcud.nodesSkippedOrder = <<>>
    /\ ChildQueue(tree, qcud.nodeOrder[qcud.currentNodeOrderIndex]) = <<nextObj - 1>>
    /\ Len(ChildQueue(tree, qcud.nodeOrder[qcud.currentNodeOrderIndex + 1])) = 1

\* The rejected calls of enqueueRequestBack.
RejectedEnqueue(t, m, dims) ==
    /\ ret'.err = ErrTooManyRequests
    /\ nextID' = nextID
    /\ enqueueRequestBack([tenantID |-> t, id |-> nextID, dims |-> dims], m)

\* The tree, the rotation and its cursors, and the queriers after a rejected
\* enqueue are those before it.
RejectedKeepsTree ==
    \A t \in Tenants, m \in MaxQueriersChoices, dims \in Dimensions :
        RejectedEnqueue(t, m, dims)
        => /\ root' = root
           /\ sharedQueuePosition' = sharedQueuePosition
           /\ sssCurrentQuerier' = sssCurrentQuerier
           /\ currentQuerier' = currentQuerier
           /\ queriersByID' = queriersByID
           /\ inflight' = inflight

RejectedKeepsTenants ==
    \A t \in Tenants, m \in MaxQueriersChoices, dims \in Dimensions :
        RejectedEnqueue(t, m, dims)
        => /\ tenantsByID' = tenantsByID
           /\ tenantQuerierIDs' = tenantQuerierIDs

\* C32 as claimed: an enqueueRequestBack rejected with ErrTooManyRequests
\* leaves the tree and its item counts, the rotation order and cursors, the
\* registered tenants, and every tenant's shard width and eligible queriers
\* as they were before the call.
C32_RejectedChangesNothing ==
    [][RejectedKeepsTree /\ RejectedKeepsTenants]_vars

\* The registrations after a rejected enqueue: the other tenants, their
\* widths and subsets as before; the request's tenant registered, with the
\* width the call was given and the shard of that width; nothing changed at
\* all when the tenant was registered with that width.
RejectedBringsTenantUpToDate ==
    \A t \in Tenants, m \in MaxQueriersChoices, dims \in Dimensions :
        RejectedEnqueue(t, m, dims)
        => /\ DOMAIN tenantsByID' = DOMAIN tenantsByID \cup {t}
           /\ DOMAIN tenantQuerierIDs' = DOMAIN tenantQuerierIDs \cup {t}
           /\ \A o \in DOMAIN tenantsByID \ {t} :
                 /\ tenantsByID'[o] = tenantsByID[o]
                 /\ tenantQuerierIDs'[o] = tenantQuerierIDs[o]
           /\ tenantsByID'[t] = [tenantID |-> t, maxQueriers |-> m]
           /\ tenantQuerierIDs'[t] = ShuffleShard(t, m, QuerierPool(queriersByID))
           /\ (t \in DOMAIN tenantsByID /\ tenantsByID[t].maxQueriers = m)
              => /\ tenantsByID' = tenantsByID
                 /\ tenantQuerierIDs' = tenantQuerierIDs

\* C32 amended: a rejected enqueueRequestBack leaves the tree and the
\* rotation unchanged, and the registration, the shard width and the eligible
\* queriers of every tenant but the request's; the request's tenant is
\* registered afterwards, with the width of the call and the subset of that
\* width, and nothing has changed when it was registered with that width.
C32_RejectedKeepsTreeAndUpdatesTenant ==
    [][RejectedKeepsTree /\ RejectedBringsTenantUpToDate]_vars

\* A full tenant was enqueued to with the width 1, the enqueue was rejected,
\* and the tenant is sharded to one of the two queriers.
C32_Witness ==
    /\ ret.err = ErrTooManyRequests
    /\ QuerierPool(queriersByID) = Queriers
    /\ \E t \in DOMAIN tenantsByID :
          /\ TenantItemCount(t) = maxTenantQueueSize
          /\ tenantsByID[t].maxQueriers = 1
          /\ Cardinality(TenantQuerierSet(t).ids) = 1

\* C33: the cursor of the skip-over algorithm is valid whenever
\* dequeueSelectNode reads nodeOrder at it: after any calls of addChildNode,
\* dequeueSelectNode and dequeueUpdateState currentNodeOrderIndex is the
\* local-queue sentinel or an index of nodeOrder, no read of
\* nodeOrder[currentNodeOrderIndex] is out of range, and skipping the last
\* child of the rotation does not leave the cursor past the end.
C33_CursorValid ==
    /\ ~treeRet.panicked
    /\ \/ qcud.currentNodeOrderIndex = localQueueIndex
       \/ /\ 0 <= qcud.currentNodeOrderIndex
          /\ qcud.currentNodeOrderIndex < Len(qcud.nodeOrder)

\* C34: the skipped list stays bounded: between the calls of the tree
\* nodesSkippedOrder holds each child name at most once and is no longer
\* than nodeOrder, also when a child stays over threshold through many
\* dequeues that serve other children.
C34_SkippedListBounded ==
    /\ \A i, j \in 1 .. Len(qcud.nodesSkippedOrder) :
          qcud.nodesSkippedOrder[i] = qcud.nodesSkippedOrder[j] => i = j
    /\ Len(qcud.nodesSkippedOrder) <= Len(qcud.nodeOrder)

\* C35: every dequeue of the tree under the skip-over algorithm ends by
\* returning: an item with its path, or the empty result with the tree as
\* it was, after finitely many selections and never by a panic.
C35_DequeueReturns ==
    [][TreeDequeue => /\ ~treeRet'.panicked
                      /\ \/ treeRet'.v # NoItem /\ ItemCount(tree') = ItemCount(tree) - 1
                         \/ treeRet'.v = NoItem /\ treeRet'.path = <<>> /\ tree' = tree]_vars

\* The IDs of a set of requests.
IDsOf(requests) == {r.id : r \in requests}

\* The tree holds every accepted request that no querier holds, once, at the
\* node of its queue path; a querier holds the others.
Conserved ==
    /\ ItemCount(root) = Cardinality(IDsOf(SubtreeItems(root)))
    /\ IDsOf(SubtreeItems(root)) \cup IDsOf(inflight) = 1 .. nextID - 1
    /\ IDsOf(SubtreeItems(root)) \cap IDsOf(inflight) = {}
    /\ \A r \in SubtreeItems(root) :
          \E i \in 1 .. Len(QueueOf(root, r)) : QueueOf(root, r)[i] = r

\* A dequeue returns a request that the tree held at the node of its queue
\* path and that no querier held, with that path, and takes it, and nothing
\* else, from the tree.
DequeueTakesOne ==
    \A q \in Queriers, last \in Positions :
        /\ ret'.request # NoRequest
        /\ dequeueRequestForQuerier(last, q)
        => /\ ret'.request \in SubtreeItems(root)
           /\ ret'.request \notin inflight
           /\ rootDequeue(root, last).path = <<root.name>> \o makeQueuePath(ret'.request)
           /\ SubtreeItems(root') = SubtreeItems(root) \ {ret'.request}
           /\ ItemCount(root') = ItemCount(root) - 1

\* A dequeue that returns no request takes nothing.
DequeueOfNothingKeeps ==
    \A q \in Queriers, last \in Positions :
        /\ ret'.request = NoRequest
        /\ dequeueRequestForQuerier(last, q)
        => root' = root

\* C36: items are conserved: after any accepted enqueueRequestBack and
\* enqueueRequestFront calls and dequeues the tree holds the accepted
\* requests less the dequeued ones, each once; no request is returned
\* twice, none is lost when a node is pruned or a tenant removed, and a
\* dequeued request comes with the path of the node it was enqueued at.
C36_ItemsConserved ==
    [][Conserved' /\ DequeueTakesOne /\ DequeueOfNothingKeeps]_vars

\* A dequeue emptied a sub-queue of a tenant, which was pruned, and the
\* tenant was removed, while the tree holds another request and a querier
\* holds the one dequeued.
C36_Witness ==
    /\ ret.request \in inflight
    /\ ret.request.dims # <<>>
    /\ ~HasNode(root, makeQueuePath(ret.request))
    /\ ret.request.tenantID \notin DOMAIN tenantsByID
    /\ ItemCount(root) >= 1
    /\ fronted # {}

\* ------------------------------------------------------------------------
\* The claims on the loads and the in-use count of the LazyBinaryReader
\* ------------------------------------------------------------------------

\* A load request is pending and the control loop is free to take it, with
\* nothing loaded and the factory able to return one more reader.
LoadRequestPending ==
    /\ \E c \in Callers : callers[c].at = "triggerLoad"
    /\ loop.at = "select"
    /\ loop.loaded.reader = NoReader
    /\ Len(readers) < MaxLoads

\* The load request is taken and the control loop goes into loadReader.
LoadStarts == TriggerLoadReader /\ loop'.at = "loading"

\* loadReader returns with the factory's reader, which is loaded.
LoadSucceeds ==
    /\ LoadReader
    /\ Len(readers') = Len(readers) + 1
    /\ loop'.loaded = loadedReader(Len(readers'), ErrNone)

\* C37: a failed load is not permanent: a load request that comes after an
\* attempt that failed, like one that comes first or after a Close, calls
\* the reader factory again, and the reader is loaded if the factory then
\* returns one.
C37_FailedLoadIsRetried ==
    /\ LoadRequestPending => ENABLED LoadStarts
    /\ loop.at = "loading" /\ Len(readers) < MaxLoads => ENABLED LoadSucceeds

\* The readers the factory returned that are not closed: those on which
\* Close was not called or returned an error.
OpenReaders == {g \in DOMAIN readers : readers[g].close # "closed"}

\* The reader loaded is the last the factory returned, every other reader
\* was closed by an unload and nobody uses it, and the callers that use a
\* reader use the one loaded.
OneReaderExists ==
    /\ loop.loaded.reader \in {NoReader, Len(readers)}
    /\ OpenReaders \subseteq {loop.loaded.reader}
    /\ \A g \in DOMAIN readers \ {loop.loaded.reader} : readers[g].inUse = 0
    /\ \A c \in Callers :
          callers[c].at = "using" => callers[c].reader = loop.loaded.reader

\* The factory is called only while nothing is loaded, and the reader it
\* returns is the one loaded from then on.
FactoryCalledWhenUnloaded ==
    /\ loop'.at = "loading" => loop'.loaded = notLoaded /\ OpenReaders' = {}
    /\ loop'.loaded # loop.loaded /\ LoadReader
       => /\ loop.loaded = notLoaded
          /\ OpenReaders = {}
          /\ \/ loop'.loaded.err # ErrNone /\ readers' = readers
             \/ loop'.loaded = loadedReader(Len(readers) + 1, ErrNone)
                /\ readers' = Append(readers, NewReader)

\* Readers come from the factory alone, and a loaded reader gives way only
\* to an unload whose Close returned no error.
ReplacedOnlyAfterClose ==
    /\ readers' # readers /\ Len(readers') # Len(readers) => LoadReader
    /\ loop.loaded.reader # NoReader /\ loop'.loaded.reader # loop.loaded.reader
       => /\ ControlLoopUnload
          /\ loop'.loaded = notLoaded
          /\ readers'[loop.loaded.reader].close = "closed"

\* C38: at most one underlying reader exists at a time: with any callers
\* in getOrLoadReader at once the factory is not called while a reader is
\* loaded, the callers that come first together share the reader of one
\* factory call, and a loaded reader is replaced only after an unload has
\* closed it.
C38_AtMostOneReader ==
    [][OneReaderExists' /\ FactoryCalledWhenUnloaded /\ ReplacedOnlyAfterClose]_vars

\* Two callers found nothing loaded and each sent a load request; both
\* requests were handled, the factory was called once and its reader is
\* loaded.
C38_Witness ==
    /\ \A c \in Callers : callers[c].at = "getReaderAgain" /\ callers[c].reloadFrom = 0
    /\ Len(readers) = 1
    /\ loop.loaded = loadedReader(1, ErrNone)
    /\ readers[1].close = "open"

\* The response the control loop is sending holds reader g, counted in use
\* for whoever receives it.
Responding(g) == IF loop.at = "respond" /\ loop.loaded.reader = g THEN 1 ELSE 0

\* The in-use count of every reader is the number of those who have still
\* to signal it: the callers using it, the response on its way, the
\* waitAndCloseReader goroutines that received it and the open symbols
\* readers.
InUseIsHolders ==
    \A g \in DOMAIN readers :
        /\ readers[g].inUse = HoldersOf(g) + Responding(g)
        /\ readers[g].inUse >= 0

\* The count goes up by one when a loaded reader is handed out, down by one
\* when a holder signals, and does not change otherwise; a step in which a
\* call ends with the context's error leaves it to waitAndCloseReader.
InUseStepsByOne ==
    \A g \in DOMAIN readers :
        /\ readers'[g].inUse > readers[g].inUse
           => GetReader /\ readers'[g].inUse = readers[g].inUse + 1
        /\ readers'[g].inUse < readers[g].inUse
           => /\ ReaderReturns \/ WaitAndCloseReaderDone \/ SymbolsReaderClose
              /\ readers'[g].inUse = readers[g].inUse - 1
              /\ HoldersOf(g)' = HoldersOf(g) - 1

\* C39: the in-use count is balanced under cancellation: each increment the
\* control loop makes when it hands out the loaded reader is matched by one
\* Done, that of waitAndCloseReader when the caller's context was cancelled
\* between its request and the response; with no holder left the count is
\* zero.
C39_InUseBalanced ==
    [][InUseIsHolders' /\ InUseStepsByOne]_vars

\* A call was cancelled between its request and the response and returned
\* the context's error; waitAndCloseReader has received the loaded reader
\* and is the one holder the count of one stands for.
C39_Witness ==
    /\ cancels = 1
    /\ lazyRet = CallReturn("Reader", errContext)
    /\ \A c \in Callers : callers[c].at = "idle"
    /\ loop.at = "select"
    /\ loop.loaded.reader # NoReader
    /\ readers[loop.loaded.reader].orphans = 1
    /\ readers[loop.loaded.reader].symbols = 0
    /\ readers[loop.loaded.reader].inUse = 1

\* An unload request the control loop went on to wait for is answered.
UnloadIsAnswered ==
    \A c \in Callers : callers[c].at = "unload" ~> callers[c].at = "idle"

\* The control loop, waiting for the users of the reader, for loadReader or
\* sending a response, comes back to its select.
LoopServesAgain == loop.at # "select" ~> loop.at = "select"

\* The call ends with the one response of the control loop, which is back
\* at its select.
AnsweredOnce ==
    \A c \in Callers :
        callers[c].at = "unload" /\ callers'[c].at # "unload"
        => /\ ControlLoopUnload
           /\ loop.peer = c
           /\ callers'[c].at = "idle"
           /\ lazyRet'.op = "unloadIfIdleSince"
           /\ loop'.at = "select"

\* C40: unload completes: when the goroutines are scheduled fairly, the
\* callers that hold the reader signal Done and close their symbols
\* readers, every Close and unloadIfIdleSince the control loop has taken
\* gets its one response, and the control loop comes back to serving
\* requests: it does not deadlock with its callers.
C40_UnloadCompletes ==
    UnloadIsAnswered /\ LoopServesAgain /\ [][AnsweredOnce]_vars

\* An unload waits for a caller that uses the reader and for an open
\* symbols reader.
C40_Witness ==
    /\ loop.at = "wait"
    /\ loop.peer \in Callers
    /\ callers[loop.peer].at = "unload"
    /\ readers[loop.loaded.reader].symbols = 1
    /\ UsersOf(loop.loaded.reader) # {}
    /\ readers[loop.loaded.reader].inUse = 2

====
